---- MODULE Spec2Model ----
(***************************************************************************)
(* Model of the WWC quality-assessment decision procedure                  *)
(* (services/wwc_assessor.py, class WWCQualityAssessor) and of the         *)
(* meta-analysis engine (services/meta_analyzer.py, class MetaAnalyzer).   *)
(*                                                                         *)
(* Python values are modelled as follows.                                  *)
(*   - An optional value is None (the empty tuple) or Some(v) (a one-tuple)*)
(*     so that None is comparable with every value of the field.           *)
(*   - A dict is a TLA+ record; a key that the code reads with             *)
(*     d.get(k, default) may be missing from the record's DOMAIN, a key    *)
(*     read with d.get(k) is always in the DOMAIN (None stands for both a  *)
(*     missing key and a null value, which d.get(k) does not distinguish). *)
(*   - A float is an exact rational [num, den] with den > 0.  Rounding of  *)
(*     IEEE arithmetic is not modelled.  The floats of the meta-analysis   *)
(*     also have inf, -inf and nan (den = 0), see the section on numpy.    *)
(*   - A raised exception that assess does not catch ends the call in      *)
(*     pc = "raised"; no assessment is returned then.                      *)
(*   - rating_justification entries are the message texts of the source;   *)
(*     the interpolated numbers of the f-strings are left as placeholders. *)
(*   - assess never writes to its arguments and reads every key once, so   *)
(*     the value of a key is drawn at the step that reads it.  The state   *)
(*     keeps the entries a step has read only as long as noted at the      *)
(*     step; the code does not read them again.                            *)
(* paper_id and paper_title are copied through unchanged by assess and are *)
(* not modelled.                                                           *)
(***************************************************************************)
EXTENDS Integers, Sequences, FiniteSets, TLC

VARIABLES
    pc,                      \* position of the running assess call
    extracted_data,          \* entries of the argument read by the last step
    user_judgments,          \* argument of assess (read at construction)
    assessment,              \* the WWCAssessment under construction / returned
    requires_baseline_check, \* local of assess (line 248)
    baseline_result,         \* local of assess (line 262): the status returned
    returned_at,             \* source line of the return statement taken (0: none)
    la_args,                 \* arguments of a direct is_low_attrition call
    la_result,               \* its result
    be_args,                 \* arguments of a direct calculate_baseline_equivalence call
    be_result,               \* its result
    pool_pc,                 \* position of a perform_random_effects_meta_analysis call
    studies,                 \* its argument
    pool_result,             \* the dictionary it returned
    pool_error,              \* the exception it raised
    sg_pc,                   \* position of a perform_subgroup_meta_analysis call
    sg_studies,              \* its argument
    sg_groups,               \* local subgroups (lines 224-230)
    sg_result,               \* the dictionary it returned
    sg_error,                \* the exception it raised
    sa_pc,                   \* position of a perform_sensitivity_analysis call
    sa_studies,              \* its argument
    sa_overall,              \* local overall_result (line 447)
    sa_result,               \* the dictionary it returned
    sa_error,                \* the exception it raised
    eg_pc,                   \* position of a perform_eggers_test call
    eg_effect_sizes,         \* its argument effect_sizes
    eg_std_errors,           \* its argument std_errors
    eg_result,               \* the dictionary it returned
    eg_error,                \* the exception it raised
    ih_pc,                   \* position of an interpret_heterogeneity call
    ih_i_squared,            \* its argument
    ih_result,               \* the string it returned
    papers,                  \* rows of the papers table, by id
    imp_pc,                  \* position of an import_pdf call
    imp_paper_data,          \* local paper_data (lines 69-75)
    imp_result,              \* the dictionary it returned
    rt_pc,                   \* position of the handler of a request
    rt_endpoint,             \* the endpoint of the request
    rt_data,                 \* the JSON body of the request
    rt_db,                   \* the papers of the database during the request
    rt_studies,              \* local studies of the handler
    rt_invoked,              \* the analyzer or assessor has been called
    rt_response,             \* status and payload of the response
    cmp_phase,               \* which call of a pair of assess calls is running
    cmp_input,               \* the arguments that the two calls share
    cmp_first,               \* rating of the call with the cautious boundary
    cmp_second               \* rating of the call with the optimistic boundary

vars == <<pc, extracted_data, user_judgments, assessment,
          requires_baseline_check, baseline_result, returned_at,
          la_args, la_result, be_args, be_result,
          pool_pc, studies, pool_result, pool_error,
          sg_pc, sg_studies, sg_groups, sg_result, sg_error,
          sa_pc, sa_studies, sa_overall, sa_result, sa_error,
          eg_pc, eg_effect_sizes, eg_std_errors, eg_result, eg_error,
          ih_pc, ih_i_squared, ih_result,
          papers, imp_pc, imp_paper_data, imp_result,
          rt_pc, rt_endpoint, rt_data, rt_db, rt_studies, rt_invoked, rt_response,
          cmp_phase, cmp_input, cmp_first, cmp_second>>

assessVars == <<pc, extracted_data, user_judgments, assessment,
                requires_baseline_check, baseline_result, returned_at>>

laVars == <<la_args, la_result>>

beVars == <<be_args, be_result>>

poolVars == <<pool_pc, studies, pool_result, pool_error>>

sgVars == <<sg_pc, sg_studies, sg_groups, sg_result, sg_error>>

saVars == <<sa_pc, sa_studies, sa_overall, sa_result, sa_error>>

egVars == <<eg_pc, eg_effect_sizes, eg_std_errors, eg_result, eg_error>>

ihVars == <<ih_pc, ih_i_squared, ih_result>>

impVars == <<papers, imp_pc, imp_paper_data, imp_result>>

rtVars == <<rt_pc, rt_endpoint, rt_data, rt_db, rt_studies, rt_invoked, rt_response>>

cmpVars == <<cmp_phase, cmp_input, cmp_first, cmp_second>>

\* the variables of the operations modelled after the subgroup analysis
laterVars == <<saVars, egVars, ihVars, impVars, rtVars, cmpVars>>

\* the variables that a call of perform_sensitivity_analysis leaves alone
exceptSaVars ==
    <<assessVars, laVars, beVars, poolVars, sgVars, egVars, ihVars, impVars, rtVars, cmpVars>>

\* the variables that a call of perform_eggers_test leaves alone
exceptEgVars ==
    <<assessVars, laVars, beVars, poolVars, sgVars, saVars, ihVars, impVars, rtVars, cmpVars>>

\* the variables that a call of interpret_heterogeneity leaves alone
exceptIhVars ==
    <<assessVars, laVars, beVars, poolVars, sgVars, saVars, egVars, impVars, rtVars, cmpVars>>

\* the variables that a call of import_pdf or add_paper leaves alone
exceptImpVars ==
    <<assessVars, laVars, beVars, poolVars, sgVars, saVars, egVars, ihVars, rtVars, cmpVars>>

\* the variables that a request to an analysis endpoint leaves alone
exceptRtVars ==
    <<assessVars, laVars, beVars, poolVars, sgVars, saVars, egVars, ihVars, impVars, cmpVars>>

\* the variables that the pair of assess calls that differ in the boundary leaves alone
exceptCmpVars ==
    <<assessVars, laVars, beVars, poolVars, sgVars, saVars, egVars, ihVars, impVars, rtVars>>

\* the variables that a call of assess leaves alone
directVars == <<laVars, beVars, poolVars, sgVars, laterVars>>

----------------------------------------------------------------------------
(* Python values *)

None == <<>>

Some(v) == <<v>>

Val(o) == o[1]

EmptyDict == [k \in {} |-> None]

\* dict.get(key, default)
Get(d, key, default) == IF key \in DOMAIN d THEN d[key] ELSE default

\* An assignment name = value followed by the statements In(name): value is
\* computed once, as the assignment does
Let(value, In(_)) == CHOOSE out \in {In(name) : name \in {value}} : TRUE

\* exact rationals standing for floats
Rat(n, d) == [num |-> n, den |-> d]

Pct(p) == Rat(p, 100)

RatLeq(a, b) == a.num * b.den <= b.num * a.den

RatLess(a, b) == a.num * b.den < b.num * a.den

RatSub(a, b) == Rat(a.num * b.den - b.num * a.den, a.den * b.den)

RatAdd(a, b) == Rat(a.num * b.den + b.num * a.den, a.den * b.den)

RatAbs(a) == Rat(IF a.num < 0 THEN -a.num ELSE a.num, a.den)

RatHalf(a) == Rat(a.num, 2 * a.den)

Min(S) == CHOOSE x \in S : \A y \in S : x <= y

----------------------------------------------------------------------------
(* Enums and class constants *)

MEETS_WITHOUT_RESERVATIONS == "Meets WWC Standards Without Reservations"

MEETS_WITH_RESERVATIONS == "Meets WWC Standards With Reservations"

DOES_NOT_MEET == "Does Not Meet WWC Standards"

WWCRating == {MEETS_WITHOUT_RESERVATIONS, MEETS_WITH_RESERVATIONS, DOES_NOT_MEET}

OPTIMISTIC == "optimistic"

CAUTIOUS == "cautious"

AttritionBoundary == {OPTIMISTIC, CAUTIOUS}

\* mutant: the two tables have changed places
ATTRITION_BOUNDARIES_swapped ==
    [cautious   |-> (10 :> 7) @@ (20 :> 5) @@ (30 :> 3) @@ (40 :> 1),
     optimistic |-> (10 :> 5) @@ (20 :> 3) @@ (30 :> 1) @@ (40 :> 0)]

\* {overall_attrition_threshold: max_differential_attrition}, in percent
ATTRITION_BOUNDARIES ==
    [cautious   |-> (10 :> 5) @@ (20 :> 3) @@ (30 :> 1) @@ (40 :> 0),
     optimistic |-> (10 :> 7) @@ (20 :> 5) @@ (30 :> 3) @@ (40 :> 1)]

\* Cohen's d thresholds, in percent of a standard deviation
BASELINE_EQUIVALENCE_THRESHOLDS ==
    [equivalent |-> 5, adjustable |-> 25, not_equivalent |-> 25]

----------------------------------------------------------------------------
(* WWCQualityAssessor.is_low_attrition *)

\* the loop over sorted(boundary_table.items()): thresholds in ascending order
RECURSIVE ScanBoundaryTable(_, _, _, _)
ScanBoundaryTable(thresholds, boundary_table, overall, differential) ==
    IF thresholds = {} THEN FALSE
    ELSE LET overall_threshold == Min(thresholds)
             diff_threshold == boundary_table[overall_threshold]
         IN  IF RatLeq(overall, Pct(overall_threshold))
             THEN RatLeq(differential, Pct(diff_threshold))
             ELSE ScanBoundaryTable(thresholds \ {overall_threshold},
                                    boundary_table, overall, differential)

\* mutant: the 40% cut-off is exclusive
is_low_attrition_exclusive(overall, differential, boundary) ==
    IF overall = None \/ differential = None THEN FALSE
    ELSE IF RatLeq(Pct(40), Val(overall)) THEN FALSE
    ELSE LET boundary_table == ATTRITION_BOUNDARIES[boundary]
         IN  ScanBoundaryTable(DOMAIN boundary_table, boundary_table,
                               Val(overall), Val(differential))

is_low_attrition(overall, differential, boundary) ==
    IF overall = None \/ differential = None THEN FALSE
    ELSE IF RatLess(Pct(40), Val(overall)) THEN FALSE
    ELSE LET boundary_table == ATTRITION_BOUNDARIES[boundary]
         IN  ScanBoundaryTable(DOMAIN boundary_table, boundary_table,
                               Val(overall), Val(differential))

----------------------------------------------------------------------------
(* WWCQualityAssessor.calculate_baseline_equivalence                       *)
(* Means and standard deviations are integers in a common unit.  Cohen's d *)
(* is kept symbolically as [diff, sumsq], standing for                     *)
(* diff / sqrt(sumsq / 2), so that |d| <= t is decided exactly:            *)
(* |d| <= p/100  <=>  20000 * diff^2 <= p^2 * sumsq.                       *)

CohenD(diff, sumsq) == [diff |-> diff, sumsq |-> sumsq]

AbsDLess(d, pct) == 20000 * d.diff * d.diff < pct * pct * d.sumsq

AbsDLeq(d, pct) == 20000 * d.diff * d.diff <= pct * pct * d.sumsq

MsgNoVariance == "No variance in baseline measures"

MsgEquivalent == "Baseline groups are equivalent (<=0.05 SD difference)"

MsgAdjustable ==
    "Baseline groups require statistical adjustment (>0.05 and <=0.25 SD difference)"

MsgNotEquivalent == "Baseline groups are not equivalent (>0.25 SD difference)"

calculate_baseline_equivalence(treatment_mean, control_mean, treatment_sd, control_sd) ==
    LET sumsq == treatment_sd * treatment_sd + control_sd * control_sd
        d == CohenD(treatment_mean - control_mean, sumsq)
    IN  IF sumsq = 0   \* pooled_sd == 0
        THEN [effect_size |-> CohenD(0, 2), status |-> "equivalent",
              message |-> MsgNoVariance]
        ELSE IF AbsDLeq(d, BASELINE_EQUIVALENCE_THRESHOLDS.equivalent)
        THEN [effect_size |-> d, status |-> "equivalent", message |-> MsgEquivalent]
        ELSE IF AbsDLeq(d, BASELINE_EQUIVALENCE_THRESHOLDS.adjustable)
        THEN [effect_size |-> d, status |-> "adjustable", message |-> MsgAdjustable]
        ELSE [effect_size |-> d, status |-> "not_equivalent",
              message |-> MsgNotEquivalent]

----------------------------------------------------------------------------
(* Inputs of assess *)

BaselineN == 5

MaxEndlineN == 6

MaxRatePct == 5

BaselineSd == 20

OptBool == {None, Some(TRUE), Some(FALSE)}

MethodologyStrings == {"rct", "Quasi-experimental"}

OptionalKey(key, values) == {EmptyDict} \cup {(key :> v) : v \in values}

\* the entries read at construction (lines 197-201)
ConstructionEntries ==
    {r @@ m :
        r \in [randomization_documented : OptBool],
        m \in OptionalKey("methodology",
                          {None} \cup {Some(x) : x \in MethodologyStrings})}

\* the entries read by step 2 (lines 217-220)
AttritionEntries ==
    [baseline_n          : {None, Some(0), Some(BaselineN)},
     endline_n           : {None} \cup {Some(n) : n \in 0..MaxEndlineN},
     treatment_attrition : {None} \cup {Some(Pct(p)) : p \in 0..MaxRatePct},
     control_attrition   : {None, Some(Pct(0)), Some(Pct(2))}]

\* control mean = treatment mean + delta; with sd = 20 on both sides
\* delta = 1, 5, 20 gives |d| = 0.05, 0.25, 1.0
BaselineMeans ==
    {[treatment |-> Some(100), control |-> c] :
        c \in {None} \cup {Some(100 + delta) : delta \in {1, 5, 20}}}

BaselineSds ==
    {[treatment |-> Some(sd), control |-> Some(sd)] : sd \in {0, BaselineSd}}

\* the entries read by step 4 (lines 253-254)
BaselineEntries ==
    {bm @@ bs :
        bm \in OptionalKey("baseline_means",
                           {None} \cup {Some(x) : x \in BaselineMeans}),
        bs \in OptionalKey("baseline_sds",
                           {None} \cup {Some(x) : x \in BaselineSds})}

UserJudgments ==
    {a @@ b @@ r :
        a \in [adjustment_strategy_is_valid : OptBool],
        b \in OptionalKey("chosen_attrition_boundary",
                          {Some(CAUTIOUS), Some(OPTIMISTIC), Some("invalid_value")}),
        r \in OptionalKey("randomization_documented", OptBool)}

----------------------------------------------------------------------------
(* WWCQualityAssessor.assess: the pieces of each step *)

MsgRandomization == "Randomization was not documented or not properly described."

MsgAttritionIncomplete ==
    "Warning: Attrition data incomplete. Assessment may be inaccurate."

MsgBaselineIncomplete ==
    "Warning: Baseline equivalence data incomplete. Assessment may be inaccurate."

SuffixNotConfirmed == " Valid statistical adjustment required but not confirmed."

SuffixConfirmed == " Valid statistical adjustment confirmed."

MsgLowAttrition ==
    "Low attrition (overall: {:.1%}, differential: {:.1%}) meets WWC standards."

MsgHighSatisfied ==
    "High attrition (overall: {:.1%}, differential: {:.1%}) but baseline equivalence satisfied."

MsgHighNotSatisfied ==
    "High attrition (overall: {:.1%}, differential: {:.1%}) and baseline equivalence not satisfied."

MsgInsufficient == "Insufficient data to complete WWC assessment."

\* str.upper() on the methodology strings of the model
Upper(s) ==
    CASE s = "rct" -> "RCT"
      [] s = "Quasi-experimental" -> "QUASI-EXPERIMENTAL"
      [] OTHER -> s

\* truth value of an optional number: None and 0 are falsy
Truthy(o) == o # None /\ Val(o) # 0

\* mutant: the fallback is the other boundary
ParseBoundaryFallbackOptimistic(boundary_str) ==
    IF boundary_str # None /\ Val(boundary_str) \in AttritionBoundary
    THEN Val(boundary_str)
    ELSE OPTIMISTIC

\* AttritionBoundary(boundary_str), ValueError caught: fall back to CAUTIOUS
ParseBoundary(boundary_str) ==
    IF boundary_str # None /\ Val(boundary_str) \in AttritionBoundary
    THEN Val(boundary_str)
    ELSE CAUTIOUS

ChosenBoundary(judgments) ==
    ParseBoundary(Get(judgments, "chosen_attrition_boundary", Some(CAUTIOUS)))

\* user_judgments.get("randomization_documented", extracted_data.get(...))
EffectiveRandomization(extracted, judgments) ==
    Get(judgments, "randomization_documented", extracted.randomization_documented)

\* extracted_data.get("methodology", "").upper(): None has no upper()
MethodologyRaises(extracted) == Get(extracted, "methodology", Some("")) = None

IsRct(extracted) == Upper(Val(Get(extracted, "methodology", Some("")))) = "RCT"

NewAssessment(extracted, judgments) ==
    [chosen_attrition_boundary      |-> ChosenBoundary(judgments),
     adjustment_strategy_is_valid   |-> judgments.adjustment_strategy_is_valid,
     randomization_documented       |-> EffectiveRandomization(extracted, judgments),
     is_rct                         |-> IsRct(extracted),
     overall_attrition              |-> None,
     differential_attrition         |-> None,
     is_high_attrition              |-> None,
     baseline_effect_size           |-> None,
     baseline_equivalence_satisfied |-> None,
     final_rating                   |-> DOES_NOT_MEET,
     rating_justification           |-> <<>>]

\* mutant: "if not randomization_documented" closes the gate on None too
RandomizationFailsFalsy(randomization_documented) ==
    randomization_documented # Some(TRUE)

\* Step 1: the gate closes on an explicit False only
RandomizationFails(randomization_documented) ==
    randomization_documented = Some(FALSE)

\* mutant: the list is replaced by the new message
ReplaceJustification(a, message) ==
    [a EXCEPT !.rating_justification = <<message>>]

\* rating_justification.append(message)
AppendJustification(a, message) ==
    [a EXCEPT !.rating_justification = Append(@, message)]

\* Step 2
OverallAttrition(baseline_n, endline_n, treatment_rate, control_rate) ==
    IF Truthy(baseline_n) /\ Truthy(endline_n) /\ Val(baseline_n) > 0
    THEN Some(Rat(Val(baseline_n) - Val(endline_n), Val(baseline_n)))
    ELSE IF treatment_rate # None /\ control_rate # None
    THEN Some(RatHalf(RatAdd(Val(treatment_rate), Val(control_rate))))
    ELSE None

\* mutant: the difference keeps its sign
DifferentialAttritionSigned(treatment_rate, control_rate) ==
    IF treatment_rate # None /\ control_rate # None
    THEN Some(RatSub(Val(treatment_rate), Val(control_rate)))
    ELSE None

DifferentialAttrition(treatment_rate, control_rate) ==
    IF treatment_rate # None /\ control_rate # None
    THEN Some(RatAbs(RatSub(Val(treatment_rate), Val(control_rate))))
    ELSE None

\* Step 3
AttritionKnown(a) == a.overall_attrition # None /\ a.differential_attrition # None

IsHighAttrition(a) ==
    IF AttritionKnown(a)
    THEN Some(~is_low_attrition(a.overall_attrition, a.differential_attrition,
                               a.chosen_attrition_boundary))
    ELSE None

\* Step 4
\* mutant: the design is ignored
RequiresBaselineCheckHighOnly(a) == a.is_high_attrition = Some(TRUE)

RequiresBaselineCheck(a) == ~a.is_rct \/ a.is_high_attrition = Some(TRUE)

EmptyBaseline == [treatment |-> None, control |-> None]

BaselineComplete(means, sds) ==
    \A v \in {means.treatment, means.control, sds.treatment, sds.control} : v # None

\* mutant: an unanswered judgment counts as a confirmation
AdjustmentNotRejected(a) == a.adjustment_strategy_is_valid # Some(FALSE)

AdjustmentConfirmed(a) == a.adjustment_strategy_is_valid = Some(TRUE)

\* mutant: "if not is_high_attrition" also takes the indeterminate case
FinalRatingFalsy(a) ==
    IF a.is_high_attrition # Some(TRUE)
    THEN [rating |-> MEETS_WITHOUT_RESERVATIONS, message |-> MsgLowAttrition]
    ELSE IF a.baseline_equivalence_satisfied = Some(TRUE)
    THEN [rating |-> MEETS_WITH_RESERVATIONS, message |-> MsgHighSatisfied]
    ELSE [rating |-> DOES_NOT_MEET, message |-> MsgHighNotSatisfied]

\* Step 5: the rating and its justification
FinalRating(a) ==
    IF a.is_high_attrition = Some(FALSE)
    THEN [rating |-> MEETS_WITHOUT_RESERVATIONS, message |-> MsgLowAttrition]
    ELSE IF a.is_high_attrition = Some(TRUE)
    THEN IF a.baseline_equivalence_satisfied = Some(TRUE)
         THEN [rating |-> MEETS_WITH_RESERVATIONS, message |-> MsgHighSatisfied]
         ELSE [rating |-> DOES_NOT_MEET, message |-> MsgHighNotSatisfied]
    ELSE [rating |-> DOES_NOT_MEET, message |-> MsgInsufficient]

----------------------------------------------------------------------------
(* WWCQualityAssessor.assess as a sequence of steps *)

Init ==
    /\ pc = "idle"
    /\ extracted_data = EmptyDict
    /\ user_judgments = EmptyDict
    /\ assessment = None
    /\ requires_baseline_check = FALSE
    /\ baseline_result = None
    /\ returned_at = 0
    /\ la_args = None
    /\ la_result = None
    /\ be_args = None
    /\ be_result = None
    /\ pool_pc = "idle"
    /\ studies = <<>>
    /\ pool_result = None
    /\ pool_error = None
    /\ sg_pc = "idle"
    /\ sg_studies = <<>>
    /\ sg_groups = <<>>
    /\ sg_result = None
    /\ sg_error = None
    /\ sa_pc = "idle"
    /\ sa_studies = <<>>
    /\ sa_overall = None
    /\ sa_result = None
    /\ sa_error = None
    /\ eg_pc = "idle"
    /\ eg_effect_sizes = <<>>
    /\ eg_std_errors = <<>>
    /\ eg_result = None
    /\ eg_error = None
    /\ ih_pc = "idle"
    /\ ih_i_squared = None
    /\ ih_result = None
    /\ papers = <<>>
    /\ imp_pc = "idle"
    /\ imp_paper_data = None
    /\ imp_result = None
    /\ rt_pc = "idle"
    /\ rt_endpoint = None
    /\ rt_data = None
    /\ rt_db = <<>>
    /\ rt_studies = <<>>
    /\ rt_invoked = FALSE
    /\ rt_response = None
    /\ cmp_phase = "idle"
    /\ cmp_input = None
    /\ cmp_first = None
    /\ cmp_second = None

\* lines 186-206: parse the boundary, build the WWCAssessment.
\* The arguments stay in the state until step 1 has run.
Assess(extracted, judgments) ==
    /\ pc = "idle"
    /\ extracted_data' = extracted
    /\ user_judgments' = judgments
    /\ IF MethodologyRaises(extracted)
       THEN /\ pc' = "raised"          \* AttributeError at line 201
            /\ assessment' = None
       ELSE /\ pc' = "step1"
            /\ assessment' = NewAssessment(extracted, judgments)
    /\ UNCHANGED <<requires_baseline_check, baseline_result, returned_at, directVars>>

\* Step 1, lines 208-214
CheckRandomization ==
    /\ pc = "step1"
    /\ IF RandomizationFails(assessment.randomization_documented)
       THEN /\ assessment' = AppendJustification(
                    [assessment EXCEPT !.final_rating = DOES_NOT_MEET],
                    MsgRandomization)
            /\ pc' = "returned"
            /\ returned_at' = 214
       ELSE /\ pc' = "step2"
            /\ UNCHANGED <<assessment, returned_at>>
    /\ extracted_data' = EmptyDict
    /\ user_judgments' = EmptyDict
    /\ UNCHANGED <<requires_baseline_check, baseline_result, directVars>>

\* Step 2, lines 216-229.  The four entries stay in the state until step 3
\* has run.
CalculateAttrition(extracted) ==
    /\ pc = "step2"
    /\ extracted_data' = extracted
    /\ LET baseline_n == extracted.baseline_n
           endline_n == extracted.endline_n
           treatment_attrition_rate == extracted.treatment_attrition
           control_attrition_rate == extracted.control_attrition
       IN  assessment' =
             [assessment EXCEPT
                !.overall_attrition =
                    OverallAttrition(baseline_n, endline_n,
                                     treatment_attrition_rate, control_attrition_rate),
                !.differential_attrition =
                    DifferentialAttrition(treatment_attrition_rate,
                                          control_attrition_rate)]
    /\ pc' = "step3"
    /\ UNCHANGED <<user_judgments, requires_baseline_check, baseline_result,
                   returned_at, directVars>>

\* Step 3, lines 231-245
DetermineAttrition ==
    /\ pc = "step3"
    /\ LET classified ==
             [assessment EXCEPT !.is_high_attrition = IsHighAttrition(assessment)]
       IN  assessment' = IF AttritionKnown(assessment)
                         THEN classified
                         ELSE AppendJustification(classified, MsgAttritionIncomplete)
    /\ pc' = "step4"
    /\ extracted_data' = EmptyDict
    /\ UNCHANGED <<user_judgments, requires_baseline_check, baseline_result,
                   returned_at, directVars>>

\* Step 4, lines 247-290.  The baseline entries are read only when the check
\* is required; they stay in the state until the call ends.
CheckBaselineEquivalence(extracted) ==
    /\ pc = "step4"
    /\ requires_baseline_check' = RequiresBaselineCheck(assessment)
    /\ IF ~RequiresBaselineCheck(assessment)
       THEN /\ extracted = EmptyDict
            /\ pc' = "step5"
            /\ UNCHANGED <<assessment, baseline_result, returned_at>>
       ELSE
         LET baseline_means == Get(extracted, "baseline_means", Some(EmptyBaseline))
             baseline_sds == Get(extracted, "baseline_sds", Some(EmptyBaseline))
         IN
         IF baseline_means = None \/ baseline_sds = None
         THEN /\ pc' = "raised"        \* AttributeError at line 256 or 258
              /\ assessment' = None
              /\ UNCHANGED <<baseline_result, returned_at>>
         ELSE IF ~BaselineComplete(Val(baseline_means), Val(baseline_sds))
         THEN /\ assessment' = AppendJustification(assessment, MsgBaselineIncomplete)
              /\ pc' = "step5"
              /\ UNCHANGED <<baseline_result, returned_at>>
         ELSE
           LET result == calculate_baseline_equivalence(
                             Val(Val(baseline_means).treatment),
                             Val(Val(baseline_means).control),
                             Val(Val(baseline_sds).treatment),
                             Val(Val(baseline_sds).control))
               measured == [assessment EXCEPT
                              !.baseline_effect_size = Some(result.effect_size)]
               satisfied == [measured EXCEPT
                               !.baseline_equivalence_satisfied = Some(TRUE)]
           IN
           /\ baseline_result' = Some(result.status)
           /\ IF result.status = "not_equivalent"
              THEN /\ assessment' = AppendJustification(
                           [measured EXCEPT !.final_rating = DOES_NOT_MEET],
                           result.message)
                   /\ pc' = "returned"
                   /\ returned_at' = 270
              ELSE IF result.status = "adjustable"
              THEN IF ~AdjustmentConfirmed(assessment)
                   THEN /\ assessment' = AppendJustification(
                                [measured EXCEPT !.final_rating = DOES_NOT_MEET],
                                result.message \o SuffixNotConfirmed)
                        /\ pc' = "returned"
                        /\ returned_at' = 278
                   ELSE /\ assessment' = AppendJustification(
                                satisfied, result.message \o SuffixConfirmed)
                        /\ pc' = "step5"
                        /\ UNCHANGED returned_at
              ELSE /\ assessment' = AppendJustification(satisfied, result.message)
                   /\ pc' = "step5"
                   /\ UNCHANGED returned_at
    /\ extracted_data' = extracted
    /\ UNCHANGED <<user_judgments, directVars>>

\* Step 5, lines 292-320
DetermineFinalRating ==
    /\ pc = "step5"
    /\ LET final == FinalRating(assessment)
       IN  assessment' = AppendJustification(
                             [assessment EXCEPT !.final_rating = final.rating],
                             final.message)
    /\ pc' = "returned"
    /\ returned_at' = 320
    /\ UNCHANGED <<extracted_data, user_judgments, requires_baseline_check,
                   baseline_result, directVars>>

\* the caller is done with the result (or the exception); the assessor keeps
\* no state between calls
Finish ==
    /\ pc \in {"returned", "raised"}
    /\ pc' = "idle"
    /\ extracted_data' = EmptyDict
    /\ user_judgments' = EmptyDict
    /\ assessment' = None
    /\ requires_baseline_check' = FALSE
    /\ baseline_result' = None
    /\ returned_at' = 0
    /\ UNCHANGED directVars

Next ==
    \/ \E extracted \in ConstructionEntries, judgments \in UserJudgments :
          Assess(extracted, judgments)
    \/ CheckRandomization
    \/ \E extracted \in AttritionEntries : CalculateAttrition(extracted)
    \/ DetermineAttrition
    \/ \E extracted \in BaselineEntries : CheckBaselineEquivalence(extracted)
    \/ DetermineFinalRating
    \/ Finish

Spec == Init /\ [][Next]_vars

----------------------------------------------------------------------------
(* Direct calls of is_low_attrition, rates on a grid of half percents *)

MaxOverallHalfPct == 90

MaxDiffHalfPct == 16

HalfPct(h) == Rat(h, 200)

LowAttritionArgs ==
    [overall      : {None} \cup {Some(HalfPct(h)) : h \in 0..MaxOverallHalfPct},
     differential : {None} \cup {Some(HalfPct(h)) : h \in 0..MaxDiffHalfPct},
     boundary     : AttritionBoundary]

IsLowAttritionCall(args) ==
    /\ la_args = None
    /\ la_args' = Some(args)
    /\ la_result' = Some(is_low_attrition(args.overall, args.differential,
                                          args.boundary))
    /\ UNCHANGED <<assessVars, beVars, poolVars, sgVars, laterVars>>

IsLowAttritionReturn ==
    /\ la_args # None
    /\ la_args' = None
    /\ la_result' = None
    /\ UNCHANGED <<assessVars, beVars, poolVars, sgVars, laterVars>>

NextLowAttrition ==
    \/ \E args \in LowAttritionArgs : IsLowAttritionCall(args)
    \/ IsLowAttritionReturn

SpecLowAttrition == Init /\ [][NextLowAttrition]_vars

----------------------------------------------------------------------------
(* Direct calls of calculate_baseline_equivalence, integer means and       *)
(* standard deviations                                                     *)

CallMaxMean == 2

CallMaxSd == 20

BaselineEquivalenceArgs ==
    [treatment_mean : 0..CallMaxMean, control_mean : 0..CallMaxMean,
     treatment_sd : 0..CallMaxSd, control_sd : 0..CallMaxSd]

BaselineEquivalenceCall(args) ==
    /\ be_args = None
    /\ be_args' = Some(args)
    /\ be_result' = Some(calculate_baseline_equivalence(
                         args.treatment_mean, args.control_mean,
                         args.treatment_sd, args.control_sd))
    /\ UNCHANGED <<assessVars, laVars, poolVars, sgVars, laterVars>>

BaselineEquivalenceReturn ==
    /\ be_args # None
    /\ be_args' = None
    /\ be_result' = None
    /\ UNCHANGED <<assessVars, laVars, poolVars, sgVars, laterVars>>

NextBaselineEquivalence ==
    \/ be_args = None
          /\ \E args \in BaselineEquivalenceArgs : BaselineEquivalenceCall(args)
    \/ BaselineEquivalenceReturn

SpecBaselineEquivalence == Init /\ [][NextBaselineEquivalence]_vars

----------------------------------------------------------------------------
(* numpy floats of services/meta_analyzer.py                               *)
(* A float is a rational in lowest terms with den > 0, or one of           *)
(* inf = 1/0, -inf = -1/0, nan = 0/0.  The operations follow IEEE 754 on   *)
(* these values (x/0 is +-inf, 0/0, inf-inf, 0*inf and inf/inf are nan,    *)
(* every comparison with nan is false); rounding and the sign of zero are  *)
(* not modelled.  numpy reports these cases as warnings, never as          *)
(* exceptions.                                                             *)

Float == [num : Int, den : Nat]

Abs(n) == IF n < 0 THEN -n ELSE n

Sign(n) == IF n > 0 THEN 1 ELSE IF n < 0 THEN -1 ELSE 0

Gcd[a \in Nat, b \in Nat] == IF b = 0 THEN a ELSE Gcd[b, a % b]

F[n \in Int, d \in Int] ==
    IF d = 0 THEN [num |-> Sign(n), den |-> 0]
    ELSE LET g == Gcd[Abs(n), Abs(d)]
         IN  [num |-> Sign(d) * (n \div g), den |-> Abs(d) \div g]

FInt(n) == F[n, 1]

NaN == F[0, 0]

Inf == F[1, 0]

IsNan(a) == a.den = 0 /\ a.num = 0

IsInf(a) == a.den = 0 /\ a.num # 0

IsFinite(a) == a.den # 0

FNeg[a \in Float] == [num |-> -a.num, den |-> a.den]

FAdd[a \in Float, b \in Float] ==
    IF a.den = 0 /\ b.den = 0
    THEN IF a = b THEN a ELSE NaN
    ELSE IF a.den = 0 THEN a
    ELSE IF b.den = 0 THEN b
    ELSE LET g == Gcd[a.den, b.den]
         IN  F[a.num * (b.den \div g) + b.num * (a.den \div g),
               (a.den \div g) * b.den]

FSub(a, b) == FAdd[a, FNeg[b]]

FMul[a \in Float, b \in Float] ==
    IF a.den = 0 \/ b.den = 0
    THEN F[a.num * b.num, 0]
    ELSE LET g1 == Gcd[Abs(a.num), b.den]
             g2 == Gcd[Abs(b.num), a.den]
         IN  F[(a.num \div g1) * (b.num \div g2),
               (a.den \div g2) * (b.den \div g1)]

\* 1 / a; 1 / 0 is inf
FRecip[a \in Float] ==
    IF a.den = 0 THEN F[0, a.num * a.num]
    ELSE IF a.num = 0 THEN Inf
    ELSE F[Sign(a.num) * a.den, Abs(a.num)]

FDiv(a, b) == FMul[a, FRecip[b]]

FSquare[a \in Float] == FMul[a, a]

\* abs(a)
FAbs[a \in Float] == [num |-> Abs(a.num), den |-> a.den]

\* n1 / d1 < n2 / d2 for d1, d2 > 0, by integer parts and then by the
\* reciprocals of the fractional parts, so that no product is formed
LessFraction[n1 \in Int, d1 \in Int, n2 \in Int, d2 \in Int] ==
    IF n1 \div d1 # n2 \div d2 THEN n1 \div d1 < n2 \div d2
    ELSE IF n2 % d2 = 0 THEN FALSE
    ELSE IF n1 % d1 = 0 THEN TRUE
    ELSE LessFraction[d2, n2 % d2, d1, n1 % d1]

FLess[a \in Float, b \in Float] ==
    /\ ~IsNan(a)
    /\ ~IsNan(b)
    /\ IF a.den = 0 /\ b.den = 0 THEN a.num < b.num
       ELSE IF a.den = 0 THEN a.num < 0
       ELSE IF b.den = 0 THEN b.num > 0
       ELSE LessFraction[a.num, a.den, b.num, b.den]

FLeq[a \in Float, b \in Float] == ~IsNan(a) /\ ~IsNan(b) /\ ~FLess[b, a]

\* ndarray.sum() and np.dot over Python lists of floats
RECURSIVE FSumTo(_, _)
FSumTo(xs, n) == IF n = 0 THEN FInt(0) ELSE FAdd[FSumTo(xs, n - 1), xs[n]]

FSum(xs) == Let(xs, LAMBDA values : FSumTo(values, Len(values)))

FDot(xs, ys) == FSum([i \in DOMAIN xs |-> FMul[xs[i], ys[i]]])

\* np.sqrt(x), kept as the value under the root: nan for x < 0 or nan
Sqrt(x) == [sq |-> IF IsNan(x) \/ FLess[x, FInt(0)] THEN NaN ELSE x]

SqrtIsNan(r) == IsNan(r.sq)

SqrtIsInf(r) == IsInf(r.sq)

SqrtIsPositive(r) == FLess[FInt(0), r.sq]

SqrtIsZero(r) == r.sq = FInt(0)

----------------------------------------------------------------------------
(* statsmodels.stats.meta_analysis as called by meta_analyzer.py           *)
(* combine_effects(effect, variance, method_re="DL", use_t=True) is the    *)
(* one-step DerSimonian-Laird computation of the library: its second       *)
(* argument is the sampling variance of each effect, its tau2 is           *)
(* (q - df) / c without truncation at zero (lines 11-12 and 161 of         *)
(* meta_analyzer.py rely on tau2 being negative "with 2 studies or low     *)
(* heterogeneity"), i2 is the fraction 1 - df / q, and conf_int() returns  *)
(* the intervals (fixed, random, fixed with WLS scale, random with WLS     *)
(* scale), each as mean -+ crit * sd with crit the t quantile of df = k-1. *)

\* tau2 of the DL method
DLEstimate(q, df, c) == FDiv(FSub(q, FInt(df)), c)

combine_effects(effect, variance) ==
    LET k == Len(effect)
        df == k - 1
    IN
    Let([i \in 1..k |-> FRecip[variance[i]]], LAMBDA weights_fe :
    Let(FSum(weights_fe), LAMBDA w_total_fe :
    Let([i \in 1..k |-> FDiv(weights_fe[i], w_total_fe)], LAMBDA weights_rel_fe :
    Let(FDot(weights_rel_fe, effect), LAMBDA eff_w_fe :
    Let(FSub(FSum([i \in 1..k |-> FMul[weights_fe[i], FSquare[effect[i]]]]),
             FDiv(FSquare[FDot(weights_fe, effect)], w_total_fe)), LAMBDA q :
    Let(FSub(w_total_fe,
             FDiv(FSum([i \in 1..k |-> FSquare[weights_fe[i]]]), w_total_fe)),
        LAMBDA c :
    Let(DLEstimate(q, df, c), LAMBDA tau2 :
    Let([i \in 1..k |-> FRecip[FAdd[variance[i], tau2]]], LAMBDA weights_re :
    Let(FSum(weights_re), LAMBDA w_total_re :
    Let([i \in 1..k |-> FDiv(weights_re[i], w_total_re)], LAMBDA weights_rel_re :
    Let(FDot(weights_rel_re, effect), LAMBDA eff_w_re :
    Let(FRecip[w_total_re], LAMBDA var_eff_w_re :
    Let(FDiv(FSum([i \in 1..k |->
                      FMul[weights_rel_fe[i],
                           FSquare[FSub(effect[i], eff_w_fe)]]]),
             FInt(df)), LAMBDA var_hksj_fe :
        [k |-> k, df_resid |-> df, q |-> q, tau2 |-> tau2,
         i2 |-> FSub(FInt(1), FRecip[FDiv(q, FInt(df))]),
         mean_effect_fe |-> eff_w_fe, mean_effect_re |-> eff_w_re,
         sd_eff_w_re |-> Sqrt(var_eff_w_re), var_eff_w_re |-> var_eff_w_re,
         var_hksj_fe |-> var_hksj_fe])))))))))))))

\* scipy.stats.t.isf(0.025, df) squared, to one decimal:
\* 12.706^2, 4.303^2, 3.182^2, 2.776^2, 2.571^2, 2.447^2, 2.365^2
TCritSq(df) ==
    CASE df = 1 -> F[1614, 10]
      [] df = 2 -> F[185, 10]
      [] df = 3 -> F[101, 10]
      [] df = 4 -> F[77, 10]
      [] df = 5 -> F[66, 10]
      [] df = 6 -> F[60, 10]
      [] OTHER  -> F[56, 10]

\* An interval end mid + side * sqrt(radsq), side -1 or 1
End(mid, side, radsq) == [mid |-> mid, side |-> side, radsq |-> radsq]

EndIsNan(e) ==
    \/ IsNan(e.mid)
    \/ SqrtIsNan(Sqrt(e.radsq))
    \/ (IsInf(e.mid) /\ IsInf(e.radsq) /\ e.mid.num # e.side)

EndIsFinite(e) == IsFinite(e.mid) /\ IsFinite(Sqrt(e.radsq).sq)

\* CombineResults.conf_int()[2]
conf_int_fe_wls(result) ==
    LET radsq == FMul[TCritSq(result.df_resid), result.var_hksj_fe]
    IN  <<End(result.mean_effect_fe, -1, radsq),
          End(result.mean_effect_fe, 1, radsq)>>

\* A tail probability of scipy.stats: 2 * (1 - t.cdf(|x / se|, df)),
\* 2 * (1 - norm.cdf(|x / se|)) or chi2.sf(x, df), kept as the distribution
\* with x and the square of se (1 for chi2): nan when x / se is nan, a
\* number in [0, 1] otherwise.  The float 1.0 is One.
TailProb(dist, df, x, se_sq) == [dist |-> dist, df |-> df, x |-> x, se_sq |-> se_sq]

One == TailProb("one", 0, FInt(0), FInt(1))

\* x / se is nan
TailIsNan(p) ==
    \/ IsNan(p.x)
    \/ IsNan(p.se_sq)
    \/ (p.x = FInt(0) /\ p.se_sq = FInt(0))
    \/ (IsInf(p.x) /\ IsInf(p.se_sq))

\* CombineResults.test_homogeneity().pvalue = chi2.sf(q, k - 1)
test_homogeneity_pvalue(result) ==
    TailProb("chi2", result.k - 1, result.q, FInt(1))

----------------------------------------------------------------------------
(* MetaAnalyzer.perform_random_effects_meta_analysis                       *)
(* A study is a dict with effect_size and std_error (integers here) and an *)
(* optional study_label; paper_id is copied through and is not modelled.   *)

MsgTooFewStudies == "Meta-analysis requires at least 2 studies"

MsgStdErrors == "Standard errors must be positive"

\* an exception raised inside the try block reaches the caller as RuntimeError
RaisedInsideTry(type, message) ==
    [type |-> "RuntimeError", message |-> "Meta-analysis computation error: " \o message]

\* an exception raised before the try block reaches the caller as it is
RaisedBeforeTry(type, message) == [type |-> type, message |-> message]

Z196 == F[196, 100]

EffectSizes(study_list) ==
    [i \in 1..Len(study_list) |-> FInt(study_list[i].effect_size)]

StdErrors(study_list) ==
    [i \in 1..Len(study_list) |-> FInt(study_list[i].std_error)]

\* line 52
TooFewStudies(study_list) == Len(study_list) < 2

\* line 60: np.any(std_errors <= 0)
SomeStdErrorNotPositive(study_list) ==
    \E i \in 1..Len(study_list) : FLeq[StdErrors(study_list)[i], FInt(0)]

\* f"Study {i}" with i counting from 0
DefaultLabelFromZero(i) == "Study " \o ToString(i - 1)

\* f"Study {i + 1}" for the study at position i of the list, counted from 1
DefaultLabel(i) == "Study " \o ToString(i)

\* lines 81-83
StudyWeights(std_errors, tau2) ==
    Let([i \in DOMAIN std_errors |->
            FRecip[FAdd[FSquare[std_errors[i]], tau2]]], LAMBDA weights :
    Let(FSum(weights), LAMBDA total :
        [i \in DOMAIN std_errors |-> FDiv(weights[i], total)]))

\* lines 87-98
StudyResults(study_list, weights) ==
    [i \in 1..Len(study_list) |->
        [study_label |-> Get(study_list[i], "study_label", DefaultLabel(i)),
         effect_size |-> EffectSizes(study_list)[i],
         std_error |-> StdErrors(study_list)[i],
         weight |-> weights[i],
         ci_lower |-> FSub(EffectSizes(study_list)[i],
                           FMul[Z196, StdErrors(study_list)[i]]),
         ci_upper |-> FAdd[EffectSizes(study_list)[i],
                           FMul[Z196, StdErrors(study_list)[i]]]]]

\* lines 102-116: ci[0] or ci[1] with its two replacements for nan
PooledInterval(result, pooled_effect) ==
    LET sd == result.sd_eff_w_re
        sd_usable == ~SqrtIsZero(sd) /\ ~SqrtIsNan(sd)
        pick(e) ==
            IF ~EndIsNan(e) THEN e
            ELSE IF sd_usable
            THEN End(pooled_effect, e.side,
                     FMul[FSquare[Z196], result.var_eff_w_re])
            ELSE End(pooled_effect, e.side, F[1, 4])
    IN  Let(conf_int_fe_wls(result), LAMBDA ci :
            [ci_lower |-> pick(ci[1]), ci_upper |-> pick(ci[2])])

\* ((ci_upper - ci_lower) / (2 * 1.96)) squared; both ends are taken from the
\* same interval mid -+ sqrt(radsq), so the width is 2 * sqrt(radsq)
ApproxSeSq(ci_lower, ci_upper) == FDiv(ci_upper.radsq, FSquare[Z196])

\* approx_se > 0
ApproxSePositive(ci_lower, ci_upper) ==
    FLess[FInt(0), Sqrt(ApproxSeSq(ci_lower, ci_upper)).sq]

\* lines 122-156
PooledPValue(result, pooled_effect, ci_lower, ci_upper, df) ==
    LET sd == result.sd_eff_w_re
    IN  Let(IF /\ ~SqrtIsZero(sd)
               /\ SqrtIsPositive(sd)
               /\ ~SqrtIsNan(sd)
               /\ ~SqrtIsInf(sd)
            THEN IF TailIsNan(TailProb("t", df, pooled_effect, sd.sq))
                 THEN TailProb("norm", 0, pooled_effect, sd.sq)
                 ELSE TailProb("t", df, pooled_effect, sd.sq)
            ELSE IF ~EndIsNan(ci_lower) /\ ~EndIsNan(ci_upper)
            THEN IF ApproxSePositive(ci_lower, ci_upper)
                 THEN TailProb("norm", 0, pooled_effect,
                               ApproxSeSq(ci_lower, ci_upper))
                 ELSE One
            ELSE One,
            LAMBDA p_value : IF TailIsNan(p_value) THEN One ELSE p_value)

\* lines 64-178: the try block, for at least two studies with positive
\* standard errors
Analyze(study_list) ==
    Let(StdErrors(study_list), LAMBDA std_errors :
    Let(combine_effects(EffectSizes(study_list), std_errors), LAMBDA result :
    Let(result.mean_effect_re, LAMBDA pooled_effect :
    Let(PooledInterval(result, pooled_effect), LAMBDA ci :
    Let(test_homogeneity_pvalue(result), LAMBDA q_pval :
        [pooled_effect |-> pooled_effect,
         ci_lower |-> ci.ci_lower,
         ci_upper |-> ci.ci_upper,
         p_value |-> PooledPValue(result, pooled_effect, ci.ci_lower,
                                  ci.ci_upper, Len(study_list) - 1),
         tau_squared |-> IF IsNan(result.tau2) \/ IsInf(result.tau2)
                         THEN FInt(0) ELSE result.tau2,
         i_squared |-> IF FLess[result.i2, FInt(0)] THEN FInt(0) ELSE result.i2,
         q_statistic |-> result.q,
         q_p_value |-> IF TailIsNan(q_pval) THEN One ELSE q_pval,
         n_studies |-> Len(study_list),
         studies |-> StudyResults(study_list,
                                  StudyWeights(std_errors, result.tau2))])))))

\* the whole call: what it raises or what it returns
perform_random_effects_meta_analysis(study_list) ==
    IF TooFewStudies(study_list)
    THEN [error |-> Some(RaisedBeforeTry("ValueError", MsgTooFewStudies)),
          result |-> None]
    ELSE IF SomeStdErrorNotPositive(study_list)
    THEN [error |-> Some(RaisedBeforeTry("ValueError", MsgStdErrors)),
          result |-> None]
    ELSE [error |-> None, result |-> Some(Analyze(study_list))]

MaxStudies == 3

MaxEffect == 1

MaxStdError == 2

StudyLabel == "Paper A"

StudyNumbers == [effect_size : 0..MaxEffect, std_error : 0..MaxStdError]

\* the first labelled studies of the list carry a study_label, the others
\* have no such key
LabelFirst(numbers, labelled) ==
    [i \in 1..Len(numbers) |->
        IF i <= labelled THEN numbers[i] @@ ("study_label" :> StudyLabel)
        ELSE numbers[i]]

StudyNumberLists == UNION {[1..k -> StudyNumbers] : k \in 0..MaxStudies}

\* the call starts
PoolCall(study_list) ==
    /\ pool_pc = "idle"
    /\ pool_pc' = "line52"
    /\ studies' = study_list
    /\ UNCHANGED <<pool_result, pool_error, assessVars, laVars, beVars, sgVars, laterVars>>

\* lines 52-53
PoolCheckStudyCount ==
    /\ pool_pc = "line52"
    /\ IF TooFewStudies(studies)
       THEN /\ pool_pc' = "raised"
            /\ pool_error' = Some(RaisedBeforeTry("ValueError", MsgTooFewStudies))
       ELSE /\ pool_pc' = "line56"
            /\ UNCHANGED pool_error
    /\ UNCHANGED <<studies, pool_result, assessVars, laVars, beVars, sgVars, laterVars>>

\* lines 56-61
PoolCheckStdErrors ==
    /\ pool_pc = "line56"
    /\ IF SomeStdErrorNotPositive(studies)
       THEN /\ pool_pc' = "raised"
            /\ pool_error' = Some(RaisedBeforeTry("ValueError", MsgStdErrors))
       ELSE /\ pool_pc' = "line64"
            /\ UNCHANGED pool_error
    /\ UNCHANGED <<studies, pool_result, assessVars, laVars, beVars, sgVars, laterVars>>

\* lines 64-178
PoolAnalyze ==
    /\ pool_pc = "line64"
    /\ pool_pc' = "returned"
    /\ \E result \in {Analyze(studies)} : pool_result' = Some(result)
    /\ UNCHANGED <<studies, pool_error, assessVars, laVars, beVars, sgVars, laterVars>>

\* the caller has the result or the exception; the next call can start
PoolDone ==
    /\ pool_pc \in {"returned", "raised"}
    /\ pool_pc' = "idle"
    /\ studies' = <<>>
    /\ pool_result' = None
    /\ pool_error' = None
    /\ UNCHANGED <<assessVars, laVars, beVars, sgVars, laterVars>>

NextPool ==
    \/ pool_pc = "idle"
          /\ \E numbers \in StudyNumberLists : \E labelled \in 0..Len(numbers) :
                PoolCall(LabelFirst(numbers, labelled))
    \/ PoolCheckStudyCount
    \/ PoolCheckStdErrors
    \/ PoolAnalyze
    \/ PoolDone

SpecPool == Init /\ [][NextPool]_vars

----------------------------------------------------------------------------
(* MetaAnalyzer.perform_subgroup_meta_analysis and                         *)
(* MetaAnalyzer._calculate_subgroup_comparison                             *)
(* subgroup_variable is "age_group"; a study may lack that key.  The dict  *)
(* of subgroups is a function from the subgroup values found to the lists  *)
(* of their studies, in the order of the argument.                         *)

SubgroupVariable == "age_group"

MsgTooFewForSubgroups == "Subgroup meta-analysis requires at least 2 studies"

MsgTooFewSubgroups == "At least 2 subgroups required for comparison"

MsgNotCalculated == "Subgroup comparison could not be calculated"

\* the two f-strings of lines 314-323 without their numbers
MsgSignificant == "Significant differences between subgroups"

MsgNotSignificant == "No significant differences between subgroups"

\* study.get(subgroup_variable, "other")
SubgroupValueOrOther(study) == Get(study, SubgroupVariable, "other")

\* line 227
SubgroupValue(study) == Get(study, SubgroupVariable, "unknown")

\* lines 225-230
GroupStudies(study_list) ==
    [g \in {SubgroupValue(study_list[i]) : i \in 1..Len(study_list)} |->
        SelectSeq(study_list, LAMBDA study : SubgroupValue(study) = g)]

\* lines 233-244: the groups of at least two studies whose pooling did not raise
SubgroupResults(groups) ==
    Let([g \in DOMAIN groups |-> perform_random_effects_meta_analysis(groups[g])],
        LAMBDA pooled :
            [g \in {name \in DOMAIN groups :
                       Len(groups[name]) >= 2 /\ pooled[name].error = None} |->
                Val(pooled[g].result)])

\* line 313: p_value < 0.05 iff q_between > scipy.stats.chi2.isf(0.05, df),
\* 3.841, 5.991, 7.815 cut to two decimals
Chi2Crit(df) ==
    CASE df = 1 -> F[384, 100]
      [] df = 2 -> F[599, 100]
      [] OTHER  -> F[781, 100]

\* lines 297-305: the term that one subgroup adds to q_between, divided by
\* 1.96^2: weight * (subgroup_effect - overall_effect)^2 with
\* weight = 1 / subgroup_se^2 = 1.96^2 / radsq for the interval
\* mid -+ sqrt(radsq) of the subgroup
QBetweenTerm(subgroup_result, overall_effect) ==
    IF ApproxSePositive(subgroup_result.ci_lower, subgroup_result.ci_upper)
    THEN FDiv(FSquare[FSub(subgroup_result.pooled_effect, overall_effect)],
              subgroup_result.ci_upper.radsq)
    ELSE FInt(0)

RECURSIVE SumOfTerms(_, _)
SumOfTerms(subgroup_results, overall_effect) ==
    IF DOMAIN subgroup_results = {} THEN FInt(0)
    ELSE LET g == CHOOSE name \in DOMAIN subgroup_results : TRUE
             rest == [name \in DOMAIN subgroup_results \ {g} |->
                         subgroup_results[name]]
         IN  FAdd[QBetweenTerm(subgroup_results[g], overall_effect),
                  SumOfTerms(rest, overall_effect)]

QBetween(subgroup_results, overall_effect) ==
    FMul[FSquare[Z196], SumOfTerms(subgroup_results, overall_effect)]

\* lines 282-332
calculate_subgroup_comparison(subgroup_results, overall_result) ==
    IF Cardinality(DOMAIN subgroup_results) < 2
    THEN [q_between |-> None, df |-> None, p_value |-> None,
          interpretation |-> MsgTooFewSubgroups]
    ELSE LET df == Cardinality(DOMAIN subgroup_results) - 1
         IN  Let(QBetween(subgroup_results, overall_result.pooled_effect),
                 LAMBDA q_between :
             Let(FLess[FInt(0), q_between], LAMBDA positive :
             [q_between |-> IF positive THEN Some(q_between) ELSE None,
              df |-> Some(df),
              p_value |-> IF df > 0 /\ positive
                          THEN Some(TailProb("chi2", df, q_between, FInt(1)))
                          ELSE None,
              interpretation |->
                  IF df > 0 /\ positive
                  THEN IF FLess[Chi2Crit(df), q_between]
                       THEN MsgSignificant ELSE MsgNotSignificant
                  ELSE MsgNotCalculated]))

SgMaxStudies == 4

SubgroupNames == {"young", "old"}

\* a study of a subgroup analysis: std_error 1, age_group optional
SubgroupStudies ==
    {[effect_size |-> effect, std_error |-> 1] @@ group :
        effect \in 0..MaxEffect,
        group \in OptionalKey(SubgroupVariable, SubgroupNames)}

\* lists of studies, by non-decreasing effect size
SubgroupStudyLists ==
    UNION {{study_list \in [1..k -> SubgroupStudies] :
                \A i \in 1..(k - 1) :
                    study_list[i].effect_size <= study_list[i + 1].effect_size} :
           k \in 1..SgMaxStudies}

\* the list with the std_error of its last study replaced
WithLastStdError(study_list, std_error) ==
    [study_list EXCEPT ![Len(study_list)].std_error = std_error]

\* the call starts
SubgroupCall(study_list) ==
    /\ sg_pc = "idle"
    /\ sg_pc' = "line220"
    /\ sg_studies' = study_list
    /\ UNCHANGED <<sg_groups, sg_result, sg_error, assessVars, laVars, beVars, poolVars, laterVars>>

\* lines 220-221
SubgroupCheckStudyCount ==
    /\ sg_pc = "line220"
    /\ IF Len(sg_studies) < 2
       THEN /\ sg_pc' = "raised"
            /\ sg_error' = Some([type |-> "ValueError",
                                 message |-> MsgTooFewForSubgroups])
       ELSE /\ sg_pc' = "line224"
            /\ UNCHANGED sg_error
    /\ UNCHANGED <<sg_studies, sg_groups, sg_result, assessVars, laVars, beVars, poolVars, laterVars>>

\* lines 224-230
SubgroupGroup ==
    /\ sg_pc = "line224"
    /\ sg_pc' = "line232"
    /\ sg_groups' = GroupStudies(sg_studies)
    /\ UNCHANGED <<sg_studies, sg_result, sg_error, assessVars, laVars, beVars, poolVars, laterVars>>

\* lines 232-258: pool the groups, pool all studies (an exception of this
\* call is not caught), compare, return
SubgroupAnalyze ==
    /\ sg_pc = "line232"
    /\ \E subgroup_results \in {SubgroupResults(sg_groups)},
          overall \in {perform_random_effects_meta_analysis(sg_studies)} :
           IF overall.error # None
           THEN /\ sg_pc' = "raised"
                /\ sg_error' = overall.error
                /\ UNCHANGED sg_result
           ELSE /\ sg_pc' = "returned"
                /\ sg_result' =
                      Some([subgroups |-> subgroup_results,
                            overall |-> Val(overall.result),
                            subgroup_variable |-> SubgroupVariable,
                            n_subgroups |-> Cardinality(DOMAIN subgroup_results),
                            subgroup_comparison |->
                                calculate_subgroup_comparison(
                                    subgroup_results, Val(overall.result))])
                /\ UNCHANGED sg_error
    /\ UNCHANGED <<sg_studies, sg_groups, assessVars, laVars, beVars, poolVars, laterVars>>

\* the caller has the result or the exception; the next call can start
SubgroupDone ==
    /\ sg_pc \in {"returned", "raised"}
    /\ sg_pc' = "idle"
    /\ sg_studies' = <<>>
    /\ sg_groups' = <<>>
    /\ sg_result' = None
    /\ sg_error' = None
    /\ UNCHANGED <<assessVars, laVars, beVars, poolVars, laterVars>>

NextSubgroup ==
    \/ sg_pc = "idle"
          /\ \E study_list \in SubgroupStudyLists : \E std_error \in 0..1 :
                SubgroupCall(WithLastStdError(study_list, std_error))
    \/ SubgroupCheckStudyCount
    \/ SubgroupGroup
    \/ SubgroupAnalyze
    \/ SubgroupDone

SpecSubgroup == Init /\ [][NextSubgroup]_vars

----------------------------------------------------------------------------
(* MetaAnalyzer.perform_sensitivity_analysis                               *)
(* removed_paper_id and paper_id are copied through and are not modelled.  *)

MsgTooFewForSensitivity == "Sensitivity analysis requires at least 3 studies"

\* the list without its first study
LeaveOutFirst(study_list, i) == Tail(study_list)

\* line 454: the studies other than study i (counted from 1), in their order
LeaveOut(study_list, i) ==
    [j \in 1..(Len(study_list) - 1) |->
        IF j < i THEN study_list[j] ELSE study_list[j + 1]]

\* lines 453-477: one entry for each study whose removal leaves a list that
\* pools without an exception
LeaveOneOut(study_list, overall_effect) ==
    Let([i \in 1..Len(study_list) |->
            perform_random_effects_meta_analysis(LeaveOut(study_list, i))],
        LAMBDA pooled :
    Let([i \in 1..Len(study_list) |->
            IF Len(study_list) - 1 >= 2 /\ pooled[i].error = None
            THEN Some([removed_study |->
                           Get(study_list[i], "study_label", DefaultLabel(i)),
                       pooled_effect |-> Val(pooled[i].result).pooled_effect,
                       ci_lower |-> Val(pooled[i].result).ci_lower,
                       ci_upper |-> Val(pooled[i].result).ci_upper,
                       difference_from_overall |->
                           FSub(Val(pooled[i].result).pooled_effect,
                                overall_effect)])
            ELSE None],
        LAMBDA entries :
            [i \in 1..Len(SelectSeq(entries, LAMBDA e : e # None)) |->
                Val(SelectSeq(entries, LAMBDA e : e # None)[i])]))

\* line 489: np.average(effect_sizes, weights=weights); numpy raises
\* ZeroDivisionError when the weights sum to zero
AverageRaises(weights) == FSum(weights) = FInt(0)

Average(values, weights) == FDiv(FDot(values, weights), FSum(weights))

\* lines 480-502, in the order of the studies
InfluenceScores(study_list, overall_tau_squared) ==
    Let(StudyWeights(StdErrors(study_list), overall_tau_squared), LAMBDA weights :
    Let(Average(EffectSizes(study_list), weights), LAMBDA mean_effect :
        [i \in 1..Len(study_list) |->
            [study_label |-> Get(study_list[i], "study_label", DefaultLabel(i)),
             influence_score |->
                 FMul[weights[i],
                      FAbs[FSub(EffectSizes(study_list)[i], mean_effect)]],
             weight |-> weights[i],
             effect_size |-> EffectSizes(study_list)[i]]]))

\* the entry goes behind the entries whose score is not smaller
InsertByInfluence(sorted, entry) ==
    Let(Len(SelectSeq(sorted, LAMBDA e :
                ~FLess[e.influence_score, entry.influence_score])),
        LAMBDA before :
            SubSeq(sorted, 1, before) \o <<entry>>
                \o SubSeq(sorted, before + 1, Len(sorted)))

\* line 505 for scores without nan: list.sort is stable, also with
\* reverse=True
RECURSIVE SortByInfluence(_, _)
SortByInfluence(entries, n) ==
    IF n = 0 THEN <<>>
    ELSE InsertByInfluence(SortByInfluence(entries, n - 1), entries[n])

\* the rearrangements of a list
Rearrangements(entries) ==
    {[i \in 1..Len(entries) |-> entries[order[i]]] :
        order \in {f \in [1..Len(entries) -> 1..Len(entries)] :
                      \A i, j \in 1..Len(entries) : i # j => f[i] # f[j]}}

\* line 505: the lists that list.sort can leave.  The order that the
\* comparisons of nan, all false, lead to is not fixed by the language; any
\* order is taken as possible then.
SortedByInfluence(entries) ==
    IF \E i \in 1..Len(entries) : IsNan(entries[i].influence_score)
    THEN Rearrangements(entries)
    ELSE {SortByInfluence(entries, Len(entries))}

SaMaxStudies == 3

SaMaxEffect == 2

SaMaxStdError == 1

\* lists of two or more studies with positive standard errors, by
\* non-decreasing effect size
SensitivityNumberLists ==
    UNION {{numbers \in [1..k -> [effect_size : 0..SaMaxEffect,
                                  std_error : 1..SaMaxStdError]] :
                \A i \in 1..(k - 1) :
                    numbers[i].effect_size <= numbers[i + 1].effect_size} :
           k \in 2..SaMaxStudies}

\* the call starts
SensitivityCall(study_list) ==
    /\ sa_pc = "idle"
    /\ sa_pc' = "line443"
    /\ sa_studies' = study_list
    /\ UNCHANGED <<sa_overall, sa_result, sa_error, exceptSaVars>>

\* lines 443-444
SensitivityCheckStudyCount ==
    /\ sa_pc = "line443"
    /\ IF Len(sa_studies) < 3
       THEN /\ sa_pc' = "raised"
            /\ sa_error' = Some([type |-> "ValueError",
                                 message |-> MsgTooFewForSensitivity])
       ELSE /\ sa_pc' = "line447"
            /\ UNCHANGED sa_error
    /\ UNCHANGED <<sa_studies, sa_overall, sa_result, exceptSaVars>>

\* line 447: an exception of the pooling of all studies is not caught
SensitivityPoolOverall ==
    /\ sa_pc = "line447"
    /\ \E overall \in {perform_random_effects_meta_analysis(sa_studies)} :
          IF overall.error # None
          THEN /\ sa_pc' = "raised"
               /\ sa_error' = overall.error
               /\ UNCHANGED sa_overall
          ELSE /\ sa_pc' = "line452"
               /\ sa_overall' = overall.result
               /\ UNCHANGED sa_error
    /\ UNCHANGED <<sa_studies, sa_result, exceptSaVars>>

\* lines 448-512
SensitivityAnalyze ==
    /\ sa_pc = "line452"
    /\ \E overall_effect \in {Val(sa_overall).pooled_effect},
          overall_tau_squared \in {Val(sa_overall).tau_squared} :
          IF AverageRaises(StudyWeights(StdErrors(sa_studies), overall_tau_squared))
          THEN /\ sa_pc' = "raised"
               /\ sa_error' = Some([type |-> "ZeroDivisionError",
                                    message |-> "Weights sum to zero, can't be normalized"])
               /\ UNCHANGED sa_result
          ELSE /\ sa_pc' = "returned"
               /\ \E leave_one_out \in {LeaveOneOut(sa_studies, overall_effect)},
                     influence_scores \in
                         SortedByInfluence(
                             InfluenceScores(sa_studies, overall_tau_squared)) :
                     sa_result' = Some([overall_effect |-> overall_effect,
                                        leave_one_out |-> leave_one_out,
                                        influence_diagnostics |-> influence_scores,
                                        n_studies |-> Len(sa_studies)])
               /\ UNCHANGED sa_error
    /\ UNCHANGED <<sa_studies, sa_overall, exceptSaVars>>

\* the caller has the result or the exception; the next call can start
SensitivityDone ==
    /\ sa_pc \in {"returned", "raised"}
    /\ sa_pc' = "idle"
    /\ sa_studies' = <<>>
    /\ sa_overall' = None
    /\ sa_result' = None
    /\ sa_error' = None
    /\ UNCHANGED exceptSaVars

NextSensitivity ==
    \/ sa_pc = "idle"
          /\ \E numbers \in SensitivityNumberLists :
                \E labelled \in 0..Len(numbers), std_error \in 0..1 :
                    SensitivityCall(
                        WithLastStdError(LabelFirst(numbers, labelled),
                                         numbers[Len(numbers)].std_error * std_error))
    \/ SensitivityCheckStudyCount
    \/ SensitivityPoolOverall
    \/ SensitivityAnalyze
    \/ SensitivityDone

SpecSensitivity == Init /\ [][NextSensitivity]_vars

----------------------------------------------------------------------------
(* MetaAnalyzer.perform_eggers_test                                        *)
(* The arguments are two arrays of numbers (integers here).  The weighted  *)
(* regression of the effect sizes on the precision 1 / std_error is        *)
(* computed exactly; a result that only the rounding of the floats decides *)
(* (a fit without residuals) is the one of the exact numbers.              *)

MsgEggerTooFew == "Egger's test requires at least 3 studies"

\* line 426, without the text of the exception
MsgEggerFailed == "Egger's test failed"

MsgEvidenceOfBias == "Evidence of publication bias (p < 0.05)"

MsgNoEvidenceOfBias == "No significant evidence of publication bias (p >= 0.05)"

\* lines 354-359, 422-427
EggerNull(interpretation) ==
    [intercept |-> None, intercept_se |-> None, intercept_pvalue |-> None,
     interpretation |-> interpretation]

TooFewForEggerBelowTwo(effect_sizes) == Len(effect_sizes) < 2

\* line 353
TooFewForEgger(effect_sizes) == Len(effect_sizes) < 3

\* line 362
Precision(std_errors) ==
    [i \in 1..Len(std_errors) |-> FRecip[FInt(std_errors[i])]]

\* line 365
EggerWeights(std_errors) ==
    [i \in 1..Len(std_errors) |-> FRecip[FSquare[FInt(std_errors[i])]]]

\* line 368: np.column_stack raises ValueError for arrays of different
\* lengths
ColumnStackRaises(effect_sizes, precision) ==
    Len(effect_sizes) # Len(precision)

\* the product of two arrays, element by element
Times(xs, ys) == [i \in 1..Len(xs) |-> FMul[xs[i], ys[i]]]

\* lines 372-374: X'WX = [[s0, s1], [s1, s2]] and X'Wy = [sy, spy] for the
\* design matrix X = [1, precision]
NormalEquations(effect_sizes, precision, weights) ==
    Let(Times(weights, precision), LAMBDA wp :
        [s0 |-> FSum(weights),
         s1 |-> FSum(wp),
         s2 |-> FSum(Times(wp, precision)),
         sy |-> FSum(Times(weights, effect_sizes)),
         spy |-> FSum(Times(wp, effect_sizes))])

Determinant(ne) == FSub(FMul[ne.s0, ne.s2], FSquare[ne.s1])

\* lines 377-378: the condition number of the symmetric matrix X'WX with
\* non-negative eigenvalues is above c = 1e12 iff
\* trace^2 / determinant > c + 2 + 1 / c; the quotient is compared with c + 2
CondAboveLimit(ne) ==
    Let(Determinant(ne), LAMBDA det :
        \/ det = FInt(0)
        \/ Let(FDiv(FSquare[FAdd[ne.s0, ne.s2]], det), LAMBDA quotient :
               ((quotient.num \div quotient.den - 2) \div 1000000)
                   \div 1000000 >= 1))

\* lines 377, 383: an array with inf or nan ends in the ValueError of line
\* 379 or in the one of scipy.linalg.solve
NotAllFinite(ne) ==
    \E x \in {ne.s0, ne.s1, ne.s2, ne.sy, ne.spy} : ~IsFinite(x)

\* line 383: beta = (X'WX)^(-1) X'Wy
Solve(ne) ==
    Let(Determinant(ne), LAMBDA det :
        <<FDiv(FSub(FMul[ne.s2, ne.sy], FMul[ne.s1, ne.spy]), det),
          FDiv(FSub(FMul[ne.s0, ne.spy], FMul[ne.s1, ne.sy]), det)>>)

\* lines 386-387
MeanSquaredError(effect_sizes, precision, weights, beta) ==
    Let([i \in 1..Len(effect_sizes) |->
            FSub(effect_sizes[i], FAdd[beta[1], FMul[beta[2], precision[i]]])],
        LAMBDA residuals :
            FDiv(FSum(Times(weights, Times(residuals, residuals))),
                 FInt(Len(effect_sizes) - 2)))

\* lines 390, 393: var_beta[0, 0] = mse * inv(X'WX)[0, 0]
VarIntercept(ne, mse) == FMul[mse, FDiv(ne.s2, Determinant(ne))]

\* line 404 with 2 * (1 - t.cdf(|t|, df)) < 0.05 iff t^2 > t.isf(0.025, df)^2
PValueBelow(p) == FLess[FMul[TCritSq(p.df), p.se_sq], FSquare[p.x]]

\* lines 370-427 for arrays of equal length
EggerRegression(effect_sizes, std_errors) ==
    Let(Precision(std_errors), LAMBDA precision :
    Let(EggerWeights(std_errors), LAMBDA weights :
    Let(NormalEquations(effect_sizes, precision, weights), LAMBDA ne :
        IF NotAllFinite(ne) \/ CondAboveLimit(ne)
        THEN EggerNull(MsgEggerFailed)
        ELSE
    Let(Solve(ne), LAMBDA beta :
    Let(VarIntercept(ne, MeanSquaredError(effect_sizes, precision, weights, beta)),
        LAMBDA var_intercept :
        IF FLeq[var_intercept, FInt(0)]
        THEN EggerNull(MsgEggerFailed)
        ELSE
    Let(TailProb("t", Len(effect_sizes) - 2, beta[1], var_intercept),
        LAMBDA intercept_pvalue :
        [intercept |-> Some(beta[1]),
         intercept_se |-> Some(Sqrt(var_intercept)),
         intercept_pvalue |-> Some(intercept_pvalue),
         interpretation |-> IF PValueBelow(intercept_pvalue)
                            THEN MsgEvidenceOfBias
                            ELSE MsgNoEvidenceOfBias]))))))

EgMaxStudies == 3

EgMaxEffect == 2

EgMaxStdError == 2

\* a study of the arrays is before or equal to another one
PairLeq(a, b) ==
    \/ a.effect_size < b.effect_size
    \/ a.effect_size = b.effect_size /\ a.std_error <= b.std_error

\* the studies of a call, two or more, in the order of PairLeq; standard
\* errors of zero and below zero are among them
EggerStudyLists ==
    UNION {{pairs \in [1..k -> [effect_size : 0..EgMaxEffect,
                                std_error : (-1)..EgMaxStdError]] :
                \A i \in 1..(k - 1) : PairLeq(pairs[i], pairs[i + 1])} :
           k \in 2..EgMaxStudies}

\* the first n entries of an array
FirstOf(xs, n) == SubSeq(xs, 1, n)

\* the call starts
EggerCall(effect_sizes, std_errors) ==
    /\ eg_pc = "idle"
    /\ eg_pc' = "line353"
    /\ eg_effect_sizes' = effect_sizes
    /\ eg_std_errors' = std_errors
    /\ UNCHANGED <<eg_result, eg_error, exceptEgVars>>

\* lines 353-359
EggerCheckStudyCount ==
    /\ eg_pc = "line353"
    /\ IF TooFewForEgger(eg_effect_sizes)
       THEN /\ eg_pc' = "returned"
            /\ eg_result' = Some(EggerNull(MsgEggerTooFew))
       ELSE /\ eg_pc' = "line362"
            /\ UNCHANGED eg_result
    /\ UNCHANGED <<eg_effect_sizes, eg_std_errors, eg_error, exceptEgVars>>

\* lines 362-368, before the try statement: the ValueError of
\* np.column_stack goes to the caller
EggerDesignMatrix ==
    /\ eg_pc = "line362"
    /\ IF ColumnStackRaises(eg_effect_sizes, Precision(eg_std_errors))
       THEN /\ eg_pc' = "raised"
            /\ eg_error' = Some([type |-> "ValueError",
                                 message |-> "all the input array dimensions except for the concatenation axis must match exactly"])
       ELSE /\ eg_pc' = "line370"
            /\ UNCHANGED eg_error
    /\ UNCHANGED <<eg_effect_sizes, eg_std_errors, eg_result, exceptEgVars>>

\* lines 370-427
EggerRegress ==
    /\ eg_pc = "line370"
    /\ eg_pc' = "returned"
    /\ \E result \in {EggerRegression([i \in 1..Len(eg_effect_sizes) |->
                                           FInt(eg_effect_sizes[i])],
                                      eg_std_errors)} :
          eg_result' = Some(result)
    /\ UNCHANGED <<eg_effect_sizes, eg_std_errors, eg_error, exceptEgVars>>

\* the caller has the result or the exception; the next call can start
EggerDone ==
    /\ eg_pc \in {"returned", "raised"}
    /\ eg_pc' = "idle"
    /\ eg_effect_sizes' = <<>>
    /\ eg_std_errors' = <<>>
    /\ eg_result' = None
    /\ eg_error' = None
    /\ UNCHANGED exceptEgVars

NextEgger ==
    \/ eg_pc = "idle"
          /\ \E pairs \in EggerStudyLists :
                \E n_effect_sizes, n_std_errors \in (Len(pairs) - 1)..Len(pairs) :
                    EggerCall(
                        FirstOf([i \in 1..Len(pairs) |-> pairs[i].effect_size],
                                n_effect_sizes),
                        FirstOf([i \in 1..Len(pairs) |-> pairs[i].std_error],
                                n_std_errors))
    \/ EggerCheckStudyCount
    \/ EggerDesignMatrix
    \/ EggerRegress
    \/ EggerDone

SpecEgger == Init /\ [][NextEgger]_vars

----------------------------------------------------------------------------
(* MetaAnalyzer.interpret_heterogeneity                                    *)

\* the bands with their upper limits included
interpret_heterogeneity_inclusive(i_squared) ==
    IF FLeq[i_squared, FInt(25)] THEN "Low heterogeneity"
    ELSE IF FLeq[i_squared, FInt(50)] THEN "Moderate heterogeneity"
    ELSE IF FLeq[i_squared, FInt(75)] THEN "Substantial heterogeneity"
    ELSE "Considerable heterogeneity"

\* lines 193-200
interpret_heterogeneity(i_squared) ==
    IF FLess[i_squared, FInt(25)] THEN "Low heterogeneity"
    ELSE IF FLess[i_squared, FInt(50)] THEN "Moderate heterogeneity"
    ELSE IF FLess[i_squared, FInt(75)] THEN "Substantial heterogeneity"
    ELSE "Considerable heterogeneity"

\* the arguments are the halves from -5 to IhMaxHalves / 2
IhMaxHalves == 210

\* the call starts
InterpretCall(i_squared) ==
    /\ ih_pc = "idle"
    /\ ih_pc' = "line193"
    /\ ih_i_squared' = Some(i_squared)
    /\ UNCHANGED <<ih_result, exceptIhVars>>

\* lines 193-200
InterpretReturn ==
    /\ ih_pc = "line193"
    /\ ih_pc' = "returned"
    /\ ih_result' = Some(interpret_heterogeneity(Val(ih_i_squared)))
    /\ UNCHANGED <<ih_i_squared, exceptIhVars>>

\* the caller has the string; the next call can start
InterpretDone ==
    /\ ih_pc = "returned"
    /\ ih_pc' = "idle"
    /\ ih_i_squared' = None
    /\ ih_result' = None
    /\ UNCHANGED exceptIhVars

NextInterpret ==
    \/ ih_pc = "idle" /\ \E halves \in (-10)..IhMaxHalves : InterpretCall(F[halves, 2])
    \/ InterpretReturn
    \/ InterpretDone

SpecInterpret == Init /\ [][NextInterpret]_vars

----------------------------------------------------------------------------
(* ImportService.import_pdf and the DatabaseManager calls it makes         *)
(* A paper is a row with id, title, authors, year, abstract, pdf_path and  *)
(* full_text; doi, s2_id and citation_count are copied as abstract is and  *)
(* are not modelled, nor are the two metadata tables (import_pdf without   *)
(* ai_config leaves them alone, lines 139-142).  No paper is deleted, so   *)
(* the id of a paper is its position in the table.  An author string is    *)
(* the list of its parts between commas.                                   *)

\* str.lower
Lower(name) ==
    CASE name = "Smith" -> "smith"
      [] name = "J. Smith" -> "j. smith"
      [] name = "Lee" -> "lee"
      [] OTHER -> name

\* part in whole, for lowered names
IsSubstring(part, whole) ==
    \/ part = whole
    \/ part = ""
    \/ part = "smith" /\ whole = "j. smith"

\* str.strip
Strip(part) ==
    CASE part = " Lee" -> "Lee"
      [] part = " " -> ""
      [] OTHER -> part

\* line 64: the parts that are not blank, stripped; no list for None and ""
SplitAuthors(author) ==
    IF author = None \/ Val(author) = <<"">>
    THEN <<>>
    ELSE SelectSeq([i \in 1..Len(Val(author)) |-> Strip(Val(author)[i])],
                   LAMBDA part : part # "")

\* line 61: filename.replace(".pdf", "")
WithoutPdf(filename) ==
    CASE filename = "Paper A.pdf" -> "Paper A"
      [] filename = "notes.pdf" -> "notes"
      [] OTHER -> filename

\* line 61
ImportTitle(extracted, filename) ==
    IF extracted.title # None /\ Val(extracted.title) # ""
    THEN Val(extracted.title)
    ELSE WithoutPdf(filename)

\* lines 49-54: str(upload_dir / filename)
UploadPath(filename) == <<"uploads", filename>>

\* lines 69-75
PaperData(extracted, filename) ==
    [title |-> ImportTitle(extracted, filename),
     authors |-> SplitAuthors(extracted.author),
     year |-> None,
     full_text |-> extracted.full_text,
     pdf_path |-> Some(UploadPath(filename))]

\* db_manager.py lines 162-181: the authors of the row and of the call
\* overlap, lowered, one within the other
AuthorsOverlap(paper_authors, authors) ==
    \E i \in 1..Len(paper_authors) : \E j \in 1..Len(authors) :
        \/ IsSubstring(Lower(paper_authors[i]), Lower(authors[j]))
        \/ IsSubstring(Lower(authors[j]), Lower(paper_authors[i]))

\* db_manager.py lines 125-185, the rows in the order of their ids
find_existing_paper(rows, title, authors, year) ==
    LET matching == {i \in 1..Len(rows) :
                        /\ rows[i].title = title
                        /\ year # None => rows[i].year = year
                        /\ AuthorsOverlap(rows[i].authors, authors)}
    IN  IF matching = {} THEN None
        ELSE Some(rows[CHOOSE i \in matching : \A j \in matching : i <= j])

\* db_manager.py lines 42-99: the new row
NewPaper(rows, data) ==
    [id |-> Len(rows) + 1,
     title |-> Get(data, "title", ""),
     authors |-> Get(data, "authors", <<>>),
     year |-> Get(data, "year", None),
     abstract |-> Get(data, "abstract", None),
     pdf_path |-> Get(data, "pdf_path", None),
     full_text |-> Get(data, "full_text", None)]

\* db_manager.py lines 187-275: the row with the entries of data
UpdatedPaper(paper, data) ==
    [key \in DOMAIN paper |->
        IF key # "id" /\ key \in DOMAIN data THEN data[key] ELSE paper[key]]

\* lines 124-127: {**existing_paper, **paper_data}
Merged(existing_paper, paper_data) ==
    [key \in DOMAIN existing_paper \cup DOMAIN paper_data |->
        IF key \in DOMAIN paper_data THEN paper_data[key]
        ELSE existing_paper[key]]

\* line 108: the truth value of pdf_path or full_text
HasFullPdf(paper) ==
    \/ paper.pdf_path # None
    \/ paper.full_text # None /\ Val(paper.full_text) # ""

ImpMaxPapers == 2

\* what the PDF parser can give for an upload
ExtractedSet ==
    [title : {None, Some("Paper A")},
     author : {None, Some(<<"">>), Some(<<"Smith">>), Some(<<"Smith", " Lee">>)},
     full_text : {Some(""), Some("Full text")}]

\* the metadata-only papers that another handler can add
MetadataOnlySet ==
    [title : {"Paper A", "notes"},
     authors : {<<>>, <<"Smith">>, <<"J. Smith">>},
     year : {None, Some(2023)},
     abstract : {Some("Abstract")}]

\* db_manager.py lines 42-99, called by a handler other than the upload
AddPaper(data) ==
    /\ imp_pc = "idle"
    /\ Len(papers) < ImpMaxPapers
    /\ papers' = Append(papers, NewPaper(papers, data))
    /\ UNCHANGED <<imp_pc, imp_paper_data, imp_result, exceptImpVars>>

\* lines 47-103, without ai_config
ImportExtract(extracted, filename) ==
    /\ imp_pc = "idle"
    /\ Len(papers) < ImpMaxPapers
    /\ imp_pc' = "line105"
    /\ imp_paper_data' = Some(PaperData(extracted, filename))
    /\ UNCHANGED <<papers, imp_result, exceptImpVars>>

\* lines 105-157, committed when the with statement is left
ImportSave ==
    /\ imp_pc = "line105"
    /\ imp_pc' = "returned"
    /\ \E paper_data \in {Val(imp_paper_data)} :
       \E existing_paper \in {find_existing_paper(papers, paper_data.title,
                                                  paper_data.authors,
                                                  paper_data.year)} :
          IF existing_paper # None
          THEN IF HasFullPdf(Val(existing_paper))
               THEN /\ imp_result' = Some([paper |-> Val(existing_paper),
                                           is_duplicate |-> TRUE,
                                           already_has_pdf |-> TRUE])
                    /\ UNCHANGED papers
               ELSE \E paper \in {UpdatedPaper(Val(existing_paper),
                                      Merged(Val(existing_paper), paper_data))} :
                       /\ papers' = [papers EXCEPT ![paper.id] = paper]
                       /\ imp_result' = Some([paper |-> paper,
                                              is_duplicate |-> TRUE,
                                              already_has_pdf |-> FALSE])
          ELSE \E paper \in {NewPaper(papers, paper_data)} :
                  /\ papers' = Append(papers, paper)
                  /\ imp_result' = Some([paper |-> paper,
                                         is_duplicate |-> FALSE])
    /\ UNCHANGED <<imp_paper_data, exceptImpVars>>

\* the caller has the result; the next call can start
ImportDone ==
    /\ imp_pc = "returned"
    /\ imp_pc' = "idle"
    /\ imp_paper_data' = None
    /\ imp_result' = None
    /\ UNCHANGED <<papers, exceptImpVars>>

NextImport ==
    \/ \E data \in MetadataOnlySet : AddPaper(data)
    \/ \E extracted \in ExtractedSet : \E filename \in {"Paper A.pdf", "notes.pdf"} :
          ImportExtract(extracted, filename)
    \/ ImportSave
    \/ ImportDone

SpecImport == Init /\ [][NextImport]_vars

----------------------------------------------------------------------------
(* routes.py: WWCAssessmentHandler, MetaAnalysisHandler,                   *)
(* BiasAssessmentHandler and SensitivityAnalysisHandler                    *)
(* A paper of the database is the dictionary of _paper_to_dict with id,    *)
(* title and, when the paper has a study_metadata row, study_metadata with *)
(* its effect_sizes column (None or a dictionary from outcome names to     *)
(* dictionaries with d and se).  The body of a request is None when there  *)
(* is none, else a dictionary.  The plots of the visualizer are not        *)
(* modelled.                                                               *)

Endpoints == {"wwc-assessment", "meta-analysis", "bias-assessment",
              "sensitivity-analysis"}

\* lines 28-31
SuccessResponse == [status |-> 200, payload |-> "success"]

\* lines 33-48
ErrorResponse(status_code, message) ==
    [status |-> status_code, payload |-> "error", message |-> message]

\* lines 324, 358 (2), lines 779, 814, 862, 893 (3)
MinStudies(endpoint) == IF endpoint = "meta-analysis" THEN 2 ELSE 3

\* lines 325, 780, 863
MsgTooFewPapers(endpoint) ==
    CASE endpoint = "meta-analysis" -> "At least 2 papers required for meta-analysis"
      [] endpoint = "bias-assessment" -> "At least 3 studies required for bias assessment"
      [] OTHER -> "At least 3 studies required for sensitivity analysis"

\* truth value of a body
NoData(data) == data = None \/ Val(data) = EmptyDict

\* db_manager.py lines 38-41
get_paper_by_id(db, paper_id) ==
    IF paper_id \in 1..Len(db) THEN Some(db[paper_id]) ELSE None

\* lines 335-337: effect_sizes of a paper, None when the column is null
EffectSizesOf(paper) ==
    IF "study_metadata" \in DOMAIN paper
    THEN Get(paper.study_metadata, "effect_sizes", Some(EmptyDict))
    ELSE Some(EmptyDict)

\* lines 339-340: effect_sizes.get(outcome_name) raises AttributeError when
\* effect_sizes is None
PaperRaises(paper, outcome_name) ==
    outcome_name # None /\ EffectSizesOf(paper) = None

\* the first value of a dictionary of outcomes (here of one outcome at most)
FirstOutcome(outcomes) == outcomes[CHOOSE name \in DOMAIN outcomes : TRUE]

\* lines 339-361: the studies that a paper adds, none or one
StudiesOfPaper(paper, outcome_name) ==
    LET effect_sizes == EffectSizesOf(paper)
        Study(outcome_data) == [study_label |-> paper.title,
                                effect_size |-> Get(outcome_data, "d", 0),
                                std_error |-> Get(outcome_data, "se", 1)]
    IN  IF outcome_name # None
        THEN IF Val(outcome_name) \in DOMAIN Val(effect_sizes)
             THEN <<Study(Val(effect_sizes)[Val(outcome_name)])>>
             ELSE <<>>
        ELSE IF effect_sizes # None /\ Val(effect_sizes) # EmptyDict
        THEN <<Study(FirstOutcome(Val(effect_sizes)))>>
        ELSE <<>>

\* lines 329-355: the loop over the first n of paper_ids; raised is true when
\* a paper has stopped it
RECURSIVE CollectStudies(_, _, _, _)
CollectStudies(db, paper_ids, outcome_name, n) ==
    IF n = 0 THEN [raised |-> FALSE, studies |-> <<>>]
    ELSE LET before == CollectStudies(db, paper_ids, outcome_name, n - 1)
             paper == get_paper_by_id(db, paper_ids[n])
         IN  IF before.raised \/ paper = None THEN before
             ELSE IF PaperRaises(Val(paper), outcome_name)
             THEN [raised |-> TRUE, studies |-> <<>>]
             ELSE [raised |-> FALSE,
                   studies |-> before.studies
                                  \o StudiesOfPaper(Val(paper), outcome_name)]

\* perform_sensitivity_analysis raises (meta_analyzer.py lines 443-489)
SensitivityRaises(study_list) ==
    \/ Len(study_list) < 3
    \/ SomeStdErrorNotPositive(study_list)
    \/ AverageRaises(StudyWeights(StdErrors(study_list),
                                  Analyze(study_list).tau_squared))

\* the call of the analyzer raises; perform_eggers_test gets two arrays of
\* the same length and raises nothing
AnalyzerRaises(endpoint, study_list) ==
    CASE endpoint = "meta-analysis" ->
             TooFewStudies(study_list) \/ SomeStdErrorNotPositive(study_list)
      [] endpoint = "sensitivity-analysis" -> SensitivityRaises(study_list)
      [] OTHER -> FALSE

RtMaxPapers == 2

RtMaxIds == 3

\* the outcomes of a paper
OutcomeDicts ==
    {EmptyDict,
     [name \in {"reading"} |-> [d |-> 1, se |-> 1]],
     [name \in {"math"} |-> [d |-> 0, se |-> 1]]}

\* study_metadata of a paper: None for a paper without the row
StudyMetadataSet ==
    {None} \cup {Some([effect_sizes |-> None])}
           \cup {Some([effect_sizes |-> Some(outcomes)]) : outcomes \in OutcomeDicts}

\* the paper with the id and the study_metadata, as _paper_to_dict gives it
PaperDict(id, study_metadata) ==
    IF study_metadata = None
    THEN [id |-> id, title |-> "Paper " \o ToString(id)]
    ELSE [id |-> id, title |-> "Paper " \o ToString(id),
          study_metadata |-> Val(study_metadata)]

\* the databases of RtMaxPapers papers
Databases ==
    {[id \in 1..RtMaxPapers |-> PaperDict(id, metadata[id])] :
        metadata \in [1..RtMaxPapers -> StudyMetadataSet]}

\* lists of ids in ascending order, the id RtMaxPapers + 1 is of no paper
PaperIdLists ==
    UNION {{ids \in [1..n -> 1..(RtMaxPapers + 1)] :
                \A i \in 1..(n - 1) : ids[i] <= ids[i + 1]} : n \in 0..RtMaxIds}

\* bodies of the requests to the three analysis endpoints
AnalysisBodies ==
    {None, Some(EmptyDict)}
        \cup {Some([paper_ids |-> ids]) : ids \in PaperIdLists}
        \cup {Some([paper_ids |-> ids, outcome_name |-> "reading"]) :
                 ids \in PaperIdLists}

\* bodies of the requests to the WWC endpoint
AssessmentBodies ==
    {None, Some(EmptyDict), Some([judgments |-> EmptyDict])}
        \cup {Some([paper_id |-> id]) : id \in 0..(RtMaxPapers + 1)}

\* the request arrives
RouteRequest(endpoint, data, db) ==
    /\ rt_pc = "idle"
    /\ rt_pc' = "post"
    /\ rt_endpoint' = Some(endpoint)
    /\ rt_data' = data
    /\ rt_db' = db
    /\ UNCHANGED <<rt_studies, rt_invoked, rt_response, exceptRtVars>>

\* lines 245-260: the checks of WWCAssessmentHandler.post
AssessmentValidate ==
    /\ rt_pc = "post"
    /\ rt_endpoint = Some("wwc-assessment")
    /\ IF NoData(rt_data)
       THEN /\ rt_response' = Some(ErrorResponse(400, "No data provided"))
            /\ rt_pc' = "responded"
       ELSE IF Get(Val(rt_data), "paper_id", 0) = 0
       THEN /\ rt_response' = Some(ErrorResponse(400, "paper_id required"))
            /\ rt_pc' = "responded"
       ELSE IF get_paper_by_id(rt_db, Val(rt_data).paper_id) = None
       THEN /\ rt_response' = Some(ErrorResponse(404, "Paper not found"))
            /\ rt_pc' = "responded"
       ELSE /\ rt_pc' = "analyze"
            /\ UNCHANGED rt_response
    /\ UNCHANGED <<rt_endpoint, rt_data, rt_db, rt_studies, rt_invoked,
                   exceptRtVars>>

\* lines 313-360, 771-816, 854-895: the checks of the three analysis
\* handlers; an exception of the loop is answered by the except clause
AnalysisValidate ==
    /\ rt_pc = "post"
    /\ rt_endpoint # Some("wwc-assessment")
    /\ IF NoData(rt_data)
       THEN /\ rt_response' = Some(ErrorResponse(400, "No data provided"))
            /\ rt_pc' = "responded"
            /\ UNCHANGED rt_studies
       ELSE \E paper_ids \in {Get(Val(rt_data), "paper_ids", <<>>)},
               outcome_name \in {IF "outcome_name" \in DOMAIN Val(rt_data)
                                 THEN Some(Val(rt_data).outcome_name)
                                 ELSE None} :
          IF Len(paper_ids) < MinStudies(Val(rt_endpoint))
          THEN /\ rt_response' = Some(ErrorResponse(400,
                                          MsgTooFewPapers(Val(rt_endpoint))))
               /\ rt_pc' = "responded"
               /\ UNCHANGED rt_studies
          ELSE \E collected \in {CollectStudies(rt_db, paper_ids, outcome_name,
                                                Len(paper_ids))} :
             IF collected.raised
             THEN /\ rt_response' = Some(ErrorResponse(500,
                                   "'NoneType' object has no attribute 'get'"))
                  /\ rt_pc' = "responded"
                  /\ UNCHANGED rt_studies
             ELSE IF Len(collected.studies) < MinStudies(Val(rt_endpoint))
             THEN /\ rt_response' = Some(ErrorResponse(400,
                                   "Insufficient studies with effect size data"))
                  /\ rt_pc' = "responded"
                  /\ UNCHANGED rt_studies
             ELSE /\ rt_pc' = "analyze"
                  /\ rt_studies' = collected.studies
                  /\ UNCHANGED rt_response
    /\ UNCHANGED <<rt_endpoint, rt_data, rt_db, rt_invoked, exceptRtVars>>

\* lines 293-304, 363-388, 824-845, 897-903: the assessor or the analyzer
\* is called; what it raises is answered by the except clause
RouteAnalyze ==
    /\ rt_pc = "analyze"
    /\ rt_pc' = "responded"
    /\ rt_invoked' = TRUE
    /\ rt_response' =
          IF rt_endpoint # Some("wwc-assessment")
             /\ AnalyzerRaises(Val(rt_endpoint), rt_studies)
          THEN Some(ErrorResponse(500, "analysis failed"))
          ELSE Some(SuccessResponse)
    /\ UNCHANGED <<rt_endpoint, rt_data, rt_db, rt_studies, exceptRtVars>>

\* the response is sent; the next request can arrive
RouteDone ==
    /\ rt_pc = "responded"
    /\ rt_pc' = "idle"
    /\ rt_endpoint' = None
    /\ rt_data' = None
    /\ rt_db' = <<>>
    /\ rt_studies' = <<>>
    /\ rt_invoked' = FALSE
    /\ rt_response' = None
    /\ UNCHANGED exceptRtVars

NextRoutes ==
    \/ rt_pc = "idle"
          /\ \E db \in Databases :
                \/ \E data \in AssessmentBodies :
                      RouteRequest("wwc-assessment", data, db)
                \/ \E endpoint \in Endpoints \ {"wwc-assessment"} :
                      \E data \in AnalysisBodies : RouteRequest(endpoint, data, db)
    \/ AssessmentValidate
    \/ AnalysisValidate
    \/ RouteAnalyze
    \/ RouteDone

SpecRoutes == Init /\ [][NextRoutes]_vars

----------------------------------------------------------------------------
(* Two calls of WWCQualityAssessor.assess with the same arguments but for  *)
(* chosen_attrition_boundary: first cautious, then optimistic.  Each call  *)
(* runs through the steps of assess above; direct calls of                 *)
(* is_low_attrition are made between the pairs.                            *)

\* the arguments that the two calls share; none of them makes assess raise
CompareInputs ==
    [construction : {c \in ConstructionEntries :
                        /\ "methodology" \in DOMAIN c
                        /\ c.methodology # None
                        /\ c.randomization_documented # Some(FALSE)},
     attrition : {e \in AttritionEntries :
                     /\ e.baseline_n # Some(0)
                     /\ e.endline_n # None => Val(e.endline_n) >= BaselineN - 1
                     /\ e.control_attrition # Some(Pct(2))},
     baseline : {b \in BaselineEntries :
                    \/ b = EmptyDict
                    \/ /\ DOMAIN b = {"baseline_means", "baseline_sds"}
                       /\ b.baseline_means # None
                       /\ Val(b.baseline_means).control # None
                       /\ b.baseline_sds # None
                       /\ Val(b.baseline_sds).control = Some(BaselineSd)},
     adjustment_strategy_is_valid : OptBool]

\* user_judgments of the call of a phase
JudgmentsOf(input, phase) ==
    [adjustment_strategy_is_valid |-> input.adjustment_strategy_is_valid]
        @@ ("chosen_attrition_boundary" :>
                Some(IF phase = "first" THEN CAUTIOUS ELSE OPTIMISTIC))

\* the arguments of a pair of calls are chosen
CompareStart(input) ==
    /\ pc = "idle"
    /\ la_args = None
    /\ cmp_phase = "idle"
    /\ cmp_phase' = "first"
    /\ cmp_input' = Some(input)
    /\ UNCHANGED <<cmp_first, cmp_second, exceptCmpVars>>

\* the call of the phase starts
CompareAssess ==
    /\ cmp_phase \in {"first", "second"}
    /\ Assess(Val(cmp_input).construction, JudgmentsOf(Val(cmp_input), cmp_phase))

\* step 2 reads the attrition entries of the arguments
CompareCalculateAttrition ==
    /\ cmp_phase \in {"first", "second"}
    /\ CalculateAttrition(Val(cmp_input).attrition)

\* step 4 reads the baseline entries of the arguments when it needs them
CompareCheckBaselineEquivalence ==
    /\ cmp_phase \in {"first", "second"}
    /\ pc = "step4"
    /\ CheckBaselineEquivalence(IF RequiresBaselineCheck(assessment)
                                THEN Val(cmp_input).baseline
                                ELSE EmptyDict)

\* the caller keeps the rating of the call that has ended
CompareRecord ==
    /\ cmp_phase \in {"first", "second"}
    /\ pc \in {"returned", "raised"}
    /\ \E rating \in {IF pc = "raised" THEN None
                      ELSE Some(assessment.final_rating)} :
          IF cmp_phase = "first"
          THEN /\ cmp_phase' = "first_recorded"
               /\ cmp_first' = rating
               /\ UNCHANGED cmp_second
          ELSE /\ cmp_phase' = "second_recorded"
               /\ cmp_second' = rating
               /\ UNCHANGED cmp_first
    /\ UNCHANGED <<cmp_input, exceptCmpVars>>

\* the call that has ended is left
CompareFinish ==
    /\ cmp_phase \in {"first_recorded", "second_recorded"}
    /\ Finish

\* the second call is next
CompareNextCall ==
    /\ cmp_phase = "first_recorded"
    /\ pc = "idle"
    /\ cmp_phase' = "second"
    /\ UNCHANGED <<cmp_input, cmp_first, cmp_second, exceptCmpVars>>

\* the pair is done
CompareDone ==
    /\ cmp_phase = "second_recorded"
    /\ pc = "idle"
    /\ cmp_phase' = "idle"
    /\ cmp_input' = None
    /\ cmp_first' = None
    /\ cmp_second' = None
    /\ UNCHANGED exceptCmpVars

NextCompare ==
    \/ /\ pc = "idle" /\ la_args = None /\ cmp_phase = "idle"
       /\ \E input \in CompareInputs : CompareStart(input)
    \/ CompareAssess
    \/ CheckRandomization
    \/ CompareCalculateAttrition
    \/ DetermineAttrition
    \/ CompareCheckBaselineEquivalence
    \/ DetermineFinalRating
    \/ CompareRecord
    \/ CompareFinish
    \/ CompareNextCall
    \/ CompareDone
    \/ /\ cmp_phase = "idle" /\ la_args = None
       /\ \E args \in LowAttritionArgs : IsLowAttritionCall(args)
    \/ IsLowAttritionReturn

SpecCompare == Init /\ [][NextCompare]_vars

----------------------------------------------------------------------------
(* Properties *)

Returned == pc = "returned"

\* the call went past the randomization gate and step 4 has run
PastBaselineGate == pc = "step5" \/ (Returned /\ returned_at # 214)

Justification == assessment.rating_justification

LastJustification == Justification[Len(Justification)]

PassingRatings == {MEETS_WITHOUT_RESERVATIONS, MEETS_WITH_RESERVATIONS}

\* The attrition table as the handbook states it: the band of an overall rate
\* is the first of 10%, 20%, 30%, 40% that it does not exceed (0: none).
AttritionBand(overall) ==
    IF RatLeq(overall, Pct(10)) THEN 1
    ELSE IF RatLeq(overall, Pct(20)) THEN 2
    ELSE IF RatLeq(overall, Pct(30)) THEN 3
    ELSE IF RatLeq(overall, Pct(40)) THEN 4
    ELSE 0

DifferentialLimitPct(boundary) ==
    IF boundary = CAUTIOUS THEN <<5, 3, 1, 0>> ELSE <<7, 5, 3, 1>>

ExpectedLowAttrition(overall, differential, boundary) ==
    /\ AttritionBand(overall) # 0
    /\ RatLeq(differential,
              Pct(DifferentialLimitPct(boundary)[AttritionBand(overall)]))

(* C1: a call that is ended neither by the randomization gate nor by the   *)
(* baseline gate (it returns at line 320) has its final_rating fixed by    *)
(* is_high_attrition and baseline_equivalence_satisfied: low attrition ->  *)
(* meets without reservations; high and satisfied -> meets with            *)
(* reservations; high and not satisfied -> does not meet; indeterminate -> *)
(* does not meet, with "Insufficient data ..." as the last justification.  *)
C1_FinalRatingTable ==
    (Returned /\ returned_at = 320) =>
        LET high == assessment.is_high_attrition
            satisfied == assessment.baseline_equivalence_satisfied
            rating == assessment.final_rating
        IN  /\ high = Some(FALSE) => rating = MEETS_WITHOUT_RESERVATIONS
            /\ (high = Some(TRUE) /\ satisfied = Some(TRUE))
                    => rating = MEETS_WITH_RESERVATIONS
            /\ (high = Some(TRUE) /\ satisfied # Some(TRUE))
                    => rating = DOES_NOT_MEET
            /\ high = None => /\ rating = DOES_NOT_MEET
                              /\ LastJustification = MsgInsufficient

C1_Witness ==
    /\ Returned /\ returned_at = 320
    /\ assessment.is_high_attrition = Some(TRUE)
    /\ assessment.baseline_equivalence_satisfied = Some(TRUE)
    /\ assessment.final_rating = MEETS_WITH_RESERVATIONS

(* C2: the effective randomization_documented is the user judgment when    *)
(* user_judgments has the key and the extracted value when it has not; an  *)
(* effective value of exactly False ends the call at once (line 214) with  *)
(* does_not_meet, the randomization message as the only justification and  *)
(* the five computed fields still null; True or null never ends it there.  *)
C2_RandomizationGate ==
    /\ pc = "step1" =>
          assessment.randomization_documented =
              IF "randomization_documented" \in DOMAIN user_judgments
              THEN user_judgments.randomization_documented
              ELSE extracted_data.randomization_documented
    /\ pc \in {"step2", "step3", "step4", "step5"} =>
          assessment.randomization_documented # Some(FALSE)
    /\ Returned =>
          IF assessment.randomization_documented = Some(FALSE)
          THEN /\ returned_at = 214
               /\ assessment.final_rating = DOES_NOT_MEET
               /\ Justification = <<MsgRandomization>>
               /\ assessment.overall_attrition = None
               /\ assessment.differential_attrition = None
               /\ assessment.is_high_attrition = None
               /\ assessment.baseline_effect_size = None
               /\ assessment.baseline_equivalence_satisfied = None
          ELSE returned_at # 214

C2_Witness ==
    /\ pc = "step1"
    /\ "randomization_documented" \in DOMAIN user_judgments
    /\ user_judgments.randomization_documented = Some(FALSE)
    /\ extracted_data.randomization_documented = Some(TRUE)

(* C3: for rates in [0,1] and both boundaries is_low_attrition equals the  *)
(* table lookup (first threshold not exceeded, inclusive; differential     *)
(* within the paired limit), is false above 40% overall and false when a   *)
(* rate is null.                                                           *)
C3_TableLookup ==
    la_result # None =>
        LET args == Val(la_args)
        IN  Val(la_result) =
              /\ args.overall # None
              /\ args.differential # None
              /\ ExpectedLowAttrition(Val(args.overall), Val(args.differential),
                                      args.boundary)

C3_Witness ==
    /\ la_result = Some(TRUE)
    /\ Val(la_args).boundary = OPTIMISTIC
    /\ Val(la_args).overall = Some(HalfPct(80))
    /\ Val(la_args).differential = Some(HalfPct(2))

BaselineMessages ==
    {MsgBaselineIncomplete, MsgNoVariance, MsgEquivalent, MsgNotEquivalent,
     MsgAdjustable \o SuffixConfirmed, MsgAdjustable \o SuffixNotConfirmed}

FinalMessages ==
    {MsgLowAttrition, MsgHighSatisfied, MsgHighNotSatisfied, MsgInsufficient}

HasBaselineEntry(justification) ==
    \E i \in 1..Len(justification) : justification[i] \in BaselineMessages

\* the baseline entries read by step 4 hold all four values
BaselineEntriesComplete ==
    /\ "baseline_means" \in DOMAIN extracted_data
    /\ "baseline_sds" \in DOMAIN extracted_data
    /\ BaselineComplete(Val(extracted_data.baseline_means),
                        Val(extracted_data.baseline_sds))

(* C4: when step 4 computes the baseline equivalence (all four values      *)
(* present): not_equivalent (|d| > 0.25) returns does_not_meet at once;    *)
(* adjustable (0.05 < |d| <= 0.25) returns does_not_meet at once unless    *)
(* adjustment_strategy_is_valid is exactly True, and otherwise sets        *)
(* baseline_equivalence_satisfied and continues; equivalent sets           *)
(* baseline_equivalence_satisfied and continues.                           *)
C4_BaselineGate ==
    baseline_result # None =>
        LET status == Val(baseline_result)
            d == Val(assessment.baseline_effect_size)
            continues == pc = "step5" \/ (Returned /\ returned_at = 320)
            satisfied == assessment.baseline_equivalence_satisfied
        IN  /\ status = "not_equivalent" <=> 32 * d.diff * d.diff > d.sumsq
            /\ status = "equivalent" <=> 800 * d.diff * d.diff <= d.sumsq
            /\ status \in {"not_equivalent", "adjustable", "equivalent"}
            /\ status = "not_equivalent" =>
                  /\ Returned /\ returned_at = 270
                  /\ assessment.final_rating = DOES_NOT_MEET
            /\ status = "adjustable" =>
                  IF assessment.adjustment_strategy_is_valid = Some(TRUE)
                  THEN continues /\ satisfied = Some(TRUE)
                  ELSE /\ Returned /\ returned_at = 278
                       /\ assessment.final_rating = DOES_NOT_MEET
            /\ status = "equivalent" => continues /\ satisfied = Some(TRUE)

C4_Witness ==
    /\ Returned /\ returned_at = 278
    /\ baseline_result = Some("adjustable")
    /\ assessment.adjustment_strategy_is_valid = None
    /\ assessment.is_high_attrition = Some(FALSE)

(* C5: step 4 evaluates the baseline gate iff the design is not an RCT or  *)
(* is_high_attrition is True.  For an RCT with low or indeterminate        *)
(* attrition no baseline entry is read, baseline_effect_size and           *)
(* baseline_equivalence_satisfied stay null and the rating follows from    *)
(* is_high_attrition alone; for a non-RCT with all four baseline values    *)
(* baseline_effect_size is non-null, also when attrition is low.           *)
C5_BaselineGateRequired ==
    PastBaselineGate =>
        LET required == ~assessment.is_rct
                            \/ assessment.is_high_attrition = Some(TRUE)
        IN  /\ requires_baseline_check = required
            /\ HasBaselineEntry(Justification) = required
            /\ ~required =>
                  /\ extracted_data = EmptyDict
                  /\ assessment.baseline_effect_size = None
                  /\ assessment.baseline_equivalence_satisfied = None
                  /\ Returned =>
                        assessment.final_rating =
                            IF assessment.is_high_attrition = Some(FALSE)
                            THEN MEETS_WITHOUT_RESERVATIONS
                            ELSE DOES_NOT_MEET
            /\ (~assessment.is_rct /\ BaselineEntriesComplete) =>
                  assessment.baseline_effect_size # None

C5_Witness ==
    /\ Returned
    /\ ~assessment.is_rct
    /\ assessment.is_high_attrition = Some(FALSE)
    /\ assessment.baseline_effect_size # None

(* C6: a study whose baseline check is required (not an RCT, or high       *)
(* attrition) gets a passing rating only if baseline_equivalence_satisfied *)
(* is True; with incomplete baseline data the rating is does_not_meet.     *)
C6_PassingNeedsBaseline ==
    (Returned /\ requires_baseline_check) =>
        (assessment.final_rating \in PassingRatings
            => assessment.baseline_equivalence_satisfied = Some(TRUE))

(* C7: assess never raises for incomplete data: whatever entries are       *)
(* present, absent or null, the call returns an assessment.                *)
C7_NeverRaises == pc # "raised"

\* the place of a justification entry in the order of the decisions
Rank(message) ==
    IF message = MsgAttritionIncomplete THEN 1
    ELSE IF message \in BaselineMessages THEN 2
    ELSE 3

JustificationOrdered ==
    \A i, k \in 1..Len(Justification) :
        i < k => Rank(Justification[i]) < Rank(Justification[k])

TerminalDecisionLast ==
    /\ Len(Justification) >= 1
    /\ CASE returned_at = 214 -> LastJustification = MsgRandomization
         [] returned_at = 270 -> LastJustification = MsgNotEquivalent
         [] returned_at = 278 ->
                LastJustification = MsgAdjustable \o SuffixNotConfirmed
         [] OTHER -> returned_at = 320 /\ LastJustification \in FinalMessages

InCall == pc \in {"step1", "step2", "step3", "step4", "step5"}

IsPrefix(s, t) == Len(s) <= Len(t) /\ SubSeq(t, 1, Len(s)) = s

(* C8: every returned assessment has a non-empty rating_justification in   *)
(* decision order (attrition warning, then baseline message or warning,    *)
(* then the final statement), the terminal decision is its last entry, and *)
(* during a call entries are only appended, never removed, replaced or     *)
(* reordered.                                                              *)
C8_JustificationTrail ==
    /\ []((InCall \/ Returned) => JustificationOrdered)
    /\ [](Returned => TerminalDecisionLast)
    /\ [][(InCall /\ (InCall' \/ Returned'))
            => IsPrefix(Justification, Justification')]_vars

C8_Witness ==
    /\ Returned
    /\ Len(Justification) = 3
    /\ Justification[1] = MsgAttritionIncomplete
    /\ Justification[2] = MsgEquivalent
    /\ Justification[3] = MsgInsufficient

InUnitInterval(rate) == rate = None \/ (0 <= Val(rate).num /\ Val(rate).num <= Val(rate).den)

(* C9: in every returned assessment overall_attrition and                  *)
(* differential_attrition are null or in [0,1], for every baseline_n > 0   *)
(* and every endline_n (also endline_n > baseline_n).                      *)
C9_AttritionInUnitInterval ==
    Returned => /\ InUnitInterval(assessment.overall_attrition)
                /\ InUnitInterval(assessment.differential_attrition)

(* C10: chosen_attrition_boundary is optimistic iff user_judgments gives   *)
(* exactly "optimistic"; with the key absent or any other value the        *)
(* cautious table is the one used for the attrition lookup, and the value  *)
(* of the key never makes assess fail.                                     *)
C10_BoundaryFallback ==
    /\ pc = "step1" =>
          LET given == "chosen_attrition_boundary" \in DOMAIN user_judgments
                          /\ user_judgments.chosen_attrition_boundary = Some(OPTIMISTIC)
          IN  assessment.chosen_attrition_boundary =
                  IF given THEN OPTIMISTIC ELSE CAUTIOUS
    /\ (pc = "raised" /\ "randomization_documented" \in DOMAIN extracted_data) =>
          /\ "methodology" \in DOMAIN extracted_data
          /\ extracted_data.methodology = None
    /\ (pc = "step4" \/ PastBaselineGate) =>
          /\ assessment.chosen_attrition_boundary \in AttritionBoundary
          /\ assessment.is_high_attrition # None =>
                assessment.is_high_attrition =
                    Some(~ExpectedLowAttrition(
                            Val(assessment.overall_attrition),
                            Val(assessment.differential_attrition),
                            assessment.chosen_attrition_boundary))

C10_Witness ==
    /\ pc = "step1"
    /\ "chosen_attrition_boundary" \in DOMAIN user_judgments
    /\ user_judgments.chosen_attrition_boundary = Some("invalid_value")
    /\ assessment.chosen_attrition_boundary = CAUTIOUS

----------------------------------------------------------------------------
(* C11: calculate_baseline_equivalence returns                             *)
(* d = (treatment_mean - control_mean) / sqrt((sd_t^2 + sd_c^2) / 2) and a *)
(* status that depends only on |d|, both upper thresholds inclusive:       *)
(* |d| <= 0.05 equivalent, 0.05 < |d| <= 0.25 adjustable, otherwise        *)
(* not_equivalent.  When the pooled standard deviation is exactly 0 it     *)
(* returns d = 0 and equivalent whatever the means are.                    *)
(* |d| <= 1/20 is 800 * diff^2 <= sumsq and |d| <= 1/4 is                  *)
(* 32 * diff^2 <= sumsq, with diff the difference of the means and sumsq   *)
(* the sum of the squared standard deviations.                             *)

BeDiff == Val(be_args).treatment_mean - Val(be_args).control_mean

BeSumSq ==
    Val(be_args).treatment_sd * Val(be_args).treatment_sd
        + Val(be_args).control_sd * Val(be_args).control_sd

C11_BaselineEquivalence ==
    be_result # None =>
        IF BeSumSq = 0
        THEN /\ Val(be_result).effect_size.diff = 0
             /\ Val(be_result).effect_size.sumsq > 0
             /\ Val(be_result).status = "equivalent"
        ELSE /\ Val(be_result).effect_size = CohenD(BeDiff, BeSumSq)
             /\ Val(be_result).status =
                    IF 800 * BeDiff * BeDiff <= BeSumSq THEN "equivalent"
                    ELSE IF 32 * BeDiff * BeDiff <= BeSumSq THEN "adjustable"
                    ELSE "not_equivalent"

\* |d| is exactly 0.25 and the status is still adjustable
C11_Witness ==
    /\ be_result # None
    /\ BeDiff # 0
    /\ 32 * BeDiff * BeDiff = BeSumSq
    /\ Val(be_result).status = "adjustable"

----------------------------------------------------------------------------
(* Properties of perform_random_effects_meta_analysis                      *)

PoolReturned == pool_pc = "returned"

PoolRaised == pool_pc = "raised"

StudyCount == Len(studies)

AllStdErrorsPositive == \A i \in 1..StudyCount : studies[i].std_error > 0

(* C12: perform_random_effects_meta_analysis raises ValueError when it is  *)
(* given fewer than two studies and when any std_error is <= 0; the        *)
(* study-count check comes first, both happen before any pooling is        *)
(* attempted, and the error reaches the caller as ValueError, not wrapped  *)
(* into RuntimeError.                                                      *)
C12_ValidationErrors ==
    /\ PoolRaised <=>
          /\ pool_pc \notin {"idle", "line52", "line56"}
          /\ (StudyCount < 2 \/ ~AllStdErrorsPositive)
    /\ PoolRaised =>
          /\ pool_result = None
          /\ Val(pool_error).type = "ValueError"
          /\ Val(pool_error).message =
                IF StudyCount < 2 THEN MsgTooFewStudies ELSE MsgStdErrors
    /\ pool_pc \in {"line64", "returned"} =>
          /\ pool_error = None
          /\ StudyCount >= 2
          /\ AllStdErrorsPositive

\* a single study whose std_error is 0: the study-count error is the one raised
C12_Witness ==
    /\ PoolRaised
    /\ StudyCount = 1
    /\ studies[1].std_error = 0
    /\ Val(pool_error) = [type |-> "ValueError", message |-> MsgTooFewStudies]

(* C13: for every valid input (at least two studies, every std_error > 0)  *)
(* the returned tau_squared is >= 0.                                       *)
C13_TauSquaredNonNegative ==
    PoolReturned => FLeq[FInt(0), Val(pool_result).tau_squared]

(* C14: the per-study weights are each in [0, 1] and sum to 1 (within      *)
(* 1e-6), where weight_i = (1 / (se_i^2 + tau^2)) / sum_j 1 / (se_j^2 +    *)
(* tau^2).                                                                 *)
RawWeight(i) ==
    FRecip[FAdd[FInt(studies[i].std_error * studies[i].std_error),
                Val(pool_result).tau_squared]]

C14_Weights ==
    PoolReturned =>
        LET entries == Val(pool_result).studies
            total == FSum([i \in 1..StudyCount |-> entries[i].weight])
        IN  /\ \A i \in 1..StudyCount :
                  /\ FLeq[FInt(0), entries[i].weight]
                  /\ FLeq[entries[i].weight, FInt(1)]
                  /\ entries[i].weight =
                        FDiv(RawWeight(i),
                             FSum([j \in 1..StudyCount |-> RawWeight(j)]))
            /\ FLeq[FSub(total, FInt(1)), F[1, 1000000]]
            /\ FLeq[FSub(FInt(1), total), F[1, 1000000]]

\* mid - sqrt(radsq) <= x
LowerEndLeq(e, x) ==
    /\ ~EndIsNan(e)
    /\ FLeq[e.mid, x] \/ FLeq[FSquare[FSub(e.mid, x)], e.radsq]

\* x <= mid + sqrt(radsq)
UpperEndGeq(e, x) ==
    /\ ~EndIsNan(e)
    /\ FLeq[x, e.mid] \/ FLeq[FSquare[FSub(x, e.mid)], e.radsq]

(* C15: the pooled result satisfies ci_lower <= pooled_effect <= ci_upper  *)
(* and 0 <= i_squared <= 100.                                              *)
C15_IntervalAndISquared ==
    PoolReturned =>
        /\ LowerEndLeq(Val(pool_result).ci_lower, Val(pool_result).pooled_effect)
        /\ UpperEndGeq(Val(pool_result).ci_upper, Val(pool_result).pooled_effect)
        /\ FLeq[FInt(0), Val(pool_result).i_squared]
        /\ FLeq[Val(pool_result).i_squared, FInt(100)]

(* C16: the result never holds a non-finite value (tau_squared, q_p_value, *)
(* p_value and the interval ends are replaced when they are nan or inf),   *)
(* and p_value is in [0, 1]: from the t distribution with df = k - 1 when  *)
(* the pooled standard error is finite and positive, otherwise from the    *)
(* normal approximation with SE = (ci_upper - ci_lower) / (2 * 1.96),      *)
(* otherwise 1.0.                                                          *)
PooledSeUsable ==
    LET sd == combine_effects(EffectSizes(studies), StdErrors(studies)).sd_eff_w_re
    IN  SqrtIsPositive(sd) /\ ~SqrtIsInf(sd)

C16_FiniteResult ==
    PoolReturned =>
        LET r == Val(pool_result)
        IN  /\ IsFinite(r.pooled_effect)
            /\ EndIsFinite(r.ci_lower)
            /\ EndIsFinite(r.ci_upper)
            /\ IsFinite(r.tau_squared)
            /\ IsFinite(r.i_squared)
            /\ IsFinite(r.q_statistic)
            /\ ~TailIsNan(r.p_value)
            /\ ~TailIsNan(r.q_p_value)
            /\ \A i \in 1..StudyCount : IsFinite(r.studies[i].weight)
            /\ r.p_value.dist \in {"t", "norm", "one"}
            /\ r.p_value.dist = "t" =>
                  PooledSeUsable /\ r.p_value.df = StudyCount - 1
            /\ r.p_value.dist = "norm" =>
                  /\ ~PooledSeUsable
                  /\ r.p_value.se_sq = ApproxSeSq(r.ci_lower, r.ci_upper)

\* "Study i" for the position i of a study in the list
ExpectedDefaultLabel(i) ==
    CASE i = 1 -> "Study 1"
      [] i = 2 -> "Study 2"
      [] i = 3 -> "Study 3"
      [] i = 4 -> "Study 4"
      [] OTHER -> "Study 5"

(* C17: the result has n_studies = k and k per-study entries in input      *)
(* order; each entry keeps effect_size and std_error, has the study_label  *)
(* that was supplied or "Study i" (i the position in the list, from 1),    *)
(* and the interval effect_size -+ 1.96 * std_error, so that               *)
(* ci_lower < effect_size < ci_upper.                                      *)
C17_StudyEntries ==
    PoolReturned =>
        LET r == Val(pool_result)
        IN  /\ r.n_studies = StudyCount
            /\ Len(r.studies) = StudyCount
            /\ \A i \in 1..StudyCount :
                  LET entry == r.studies[i]
                      e == studies[i].effect_size
                      se == studies[i].std_error
                  IN  /\ entry.effect_size = [num |-> e, den |-> 1]
                      /\ entry.std_error = [num |-> se, den |-> 1]
                      /\ entry.study_label =
                            IF "study_label" \in DOMAIN studies[i]
                            THEN studies[i].study_label
                            ELSE ExpectedDefaultLabel(i)
                      /\ 100 * entry.ci_lower.num
                            = (100 * e - 196 * se) * entry.ci_lower.den
                      /\ 100 * entry.ci_upper.num
                            = (100 * e + 196 * se) * entry.ci_upper.den
                      /\ FLess[entry.ci_lower, entry.effect_size]
                      /\ FLess[entry.effect_size, entry.ci_upper]

\* three studies, the first labelled, the last two not
C17_Witness ==
    /\ PoolReturned
    /\ StudyCount = 3
    /\ Val(pool_result).studies[1].study_label = StudyLabel
    /\ Val(pool_result).studies[2].study_label = "Study 2"
    /\ Val(pool_result).studies[3].study_label = "Study 3"

----------------------------------------------------------------------------
(* Properties of perform_subgroup_meta_analysis                            *)

SubgroupReturned == sg_pc = "returned"

\* the subgroup value of a study as the claims describe it
ExpectedGroup(study) ==
    IF SubgroupVariable \in DOMAIN study THEN study[SubgroupVariable] ELSE "unknown"

ExpectedMembers(g) == SelectSeq(sg_studies, LAMBDA study : ExpectedGroup(study) = g)

ExpectedGroups == {ExpectedGroup(sg_studies[i]) : i \in 1..Len(sg_studies)}

(* C19: perform_subgroup_meta_analysis groups the records by their         *)
(* subgroup value, a record without a value going to the group "unknown";  *)
(* the returned subgroups are exactly the groups with at least 2 members,  *)
(* each pooled over exactly its own members; smaller groups are omitted    *)
(* without failing the call; overall is the pooling of all records         *)
(* (overall.n_studies = number of records); n_subgroups is the number of   *)
(* returned subgroups; fewer than 2 records raise a validation error.      *)
C19_Subgroups ==
    /\ SubgroupReturned =>
          LET r == Val(sg_result)
          IN  /\ DOMAIN r.subgroups = {g \in ExpectedGroups : Len(ExpectedMembers(g)) >= 2}
              /\ \A g \in DOMAIN r.subgroups :
                    /\ r.subgroups[g].n_studies = Len(ExpectedMembers(g))
                    /\ r.subgroups[g] = Analyze(ExpectedMembers(g))
              /\ r.overall.n_studies = Len(sg_studies)
              /\ r.overall = Analyze(sg_studies)
              /\ r.n_subgroups = Cardinality(DOMAIN r.subgroups)
              /\ Len(sg_studies) >= 2
    /\ (sg_pc \notin {"idle", "line220"} /\ Len(sg_studies) < 2) =>
          /\ sg_pc = "raised"
          /\ Val(sg_error) = [type |-> "ValueError", message |-> MsgTooFewForSubgroups]

\* two studies without age_group are pooled as "unknown", the only young
\* study is left out of subgroups and counted in overall
C19_Witness ==
    /\ SubgroupReturned
    /\ DOMAIN Val(sg_result).subgroups = {"unknown"}
    /\ Len(ExpectedMembers("young")) = 1
    /\ Val(sg_result).overall.n_studies = 3

\* (1 / SE_g^2) * (effect_g - effect_overall)^2 summed over the subgroups,
\* SE_g^2 = radsq_g / 1.96^2 for the interval mid -+ sqrt(radsq_g) of g
RECURSIVE SumOverSubgroups(_, _)
SumOverSubgroups(subgroup_results, overall_effect) ==
    IF DOMAIN subgroup_results = {} THEN FInt(0)
    ELSE LET g == CHOOSE name \in DOMAIN subgroup_results : TRUE
             rest == [name \in DOMAIN subgroup_results \ {g} |->
                         subgroup_results[name]]
         IN  FAdd[FMul[FRecip[subgroup_results[g].ci_upper.radsq],
                       FSquare[FSub(subgroup_results[g].pooled_effect,
                                    overall_effect)]],
                  SumOverSubgroups(rest, overall_effect)]

(* C20: with fewer than 2 returned subgroups q_between, df and p_value are *)
(* null and the interpretation is "At least 2 subgroups required for       *)
(* comparison"; with 2 or more, df = number of subgroups - 1, q_between is *)
(* the sum over the subgroups of (1 / SE_g^2) * (effect_g - overall)^2     *)
(* with SE_g = (ci_upper_g - ci_lower_g) / (2 * 1.96), and p_value is the  *)
(* chi-square upper tail of q_between with df degrees of freedom, not null *)
(* and in [0, 1].                                                          *)
C20_SubgroupComparison ==
    SubgroupReturned =>
        LET r == Val(sg_result)
            comparison == r.subgroup_comparison
            n == Cardinality(DOMAIN r.subgroups)
            q == FMul[F[196 * 196, 100 * 100],
                      SumOverSubgroups(r.subgroups, r.overall.pooled_effect)]
        IN  IF n < 2
            THEN comparison = [q_between |-> None, df |-> None, p_value |-> None,
                               interpretation |-> MsgTooFewSubgroups]
            ELSE /\ comparison.df = Some(n - 1)
                 /\ comparison.q_between = Some(q)
                 /\ comparison.p_value # None
                 /\ Val(comparison.p_value).dist = "chi2"
                 /\ Val(comparison.p_value).df = n - 1
                 /\ Val(comparison.p_value).x = q
                 /\ ~TailIsNan(Val(comparison.p_value))

----------------------------------------------------------------------------
(* Properties of perform_sensitivity_analysis                              *)

SensitivityReturned == sa_pc = "returned"

SensitivityCount == Len(sa_studies)

\* the label of study i of the argument
SensitivityLabel(i) ==
    IF "study_label" \in DOMAIN sa_studies[i] THEN sa_studies[i].study_label
    ELSE ExpectedDefaultLabel(i)

\* the entries are the studies of the argument in the order given
InOrder(entries, order) ==
    \A i \in 1..SensitivityCount :
        /\ entries[i].study_label = SensitivityLabel(order[i])
        /\ entries[i].effect_size = FInt(sa_studies[order[i]].effect_size)

IsPermutationOfStudies(entries) ==
    /\ Len(entries) = SensitivityCount
    /\ \E order \in [1..SensitivityCount -> 1..SensitivityCount] :
          /\ \A i, j \in 1..SensitivityCount : i # j => order[i] # order[j]
          /\ InOrder(entries, order)

(* C21: perform_sensitivity_analysis on k >= 3 studies with positive       *)
(* standard errors returns k leave-one-out entries and k influence         *)
(* entries; the influence entries are a permutation of the k studies, in   *)
(* non-increasing order of influence_score, every influence_score is >= 0  *)
(* and every weight lies in [0, 1]; fewer than 3 studies raise ValueError  *)
(* before anything is pooled.                                              *)
C21_SensitivityEntries ==
    /\ (sa_pc \notin {"idle", "line443"} /\ SensitivityCount < 3) =>
          /\ sa_pc = "raised"
          /\ Val(sa_error) = [type |-> "ValueError",
                              message |-> MsgTooFewForSensitivity]
          /\ sa_overall = None
    /\ (sa_pc = "raised" /\ SensitivityCount >= 3) =>
          \E i \in 1..SensitivityCount : sa_studies[i].std_error <= 0
    /\ SensitivityReturned =>
          LET r == Val(sa_result)
              influence == r.influence_diagnostics
          IN  /\ SensitivityCount >= 3
              /\ Len(r.leave_one_out) = SensitivityCount
              /\ IsPermutationOfStudies(influence)
              /\ \A i \in 1..(Len(influence) - 1) :
                    FLeq[influence[i + 1].influence_score,
                         influence[i].influence_score]
              /\ \A i \in 1..Len(influence) :
                    /\ FLeq[FInt(0), influence[i].influence_score]
                    /\ FLeq[FInt(0), influence[i].weight]
                    /\ FLeq[influence[i].weight, FInt(1)]

(* The i-th leave-one-out entry pools the k - 1 studies other than    *)
(* study i in their order, removed_study is the label of study i or        *)
(* "Study i" by its position in the whole list, difference_from_overall is *)
(* that pooled effect minus the pooled effect of all studies;              *)
(* overall_effect is the pooled effect of all k studies; the argument is   *)
(* not modified.                                                           *)
C29_Entries ==
    SensitivityReturned =>
        LET r == Val(sa_result)
            all == Analyze(sa_studies)
        IN  /\ r.overall_effect = all.pooled_effect
            /\ Len(r.leave_one_out) = SensitivityCount
            /\ \A i \in 1..SensitivityCount :
                  LET others == [j \in (1..SensitivityCount) \ {i} |-> sa_studies[j]]
                      kept == [j \in 1..(SensitivityCount - 1) |->
                                  others[IF j < i THEN j ELSE j + 1]]
                      entry == r.leave_one_out[i]
                  IN  /\ entry.pooled_effect = Analyze(kept).pooled_effect
                      /\ entry.ci_lower = Analyze(kept).ci_lower
                      /\ entry.ci_upper = Analyze(kept).ci_upper
                      /\ entry.removed_study = SensitivityLabel(i)
                      /\ entry.difference_from_overall
                            = FSub(entry.pooled_effect, all.pooled_effect)

\* C29: the entries are those of C29_Entries and the argument of a call stays
\* as it was given until the call has ended
C29_LeaveOneOut ==
    /\ []C29_Entries
    /\ [][(sa_pc # "idle" /\ sa_pc' # "idle") => sa_studies' = sa_studies]_vars

\* three studies of which the first has a label: the third entry is of the
\* unlabelled third study and its pooled effect is not the overall one
C29_Witness ==
    /\ SensitivityReturned
    /\ SensitivityCount = 3
    /\ "study_label" \in DOMAIN sa_studies[1]
    /\ Val(sa_result).leave_one_out[1].removed_study = StudyLabel
    /\ Val(sa_result).leave_one_out[3].removed_study = "Study 3"
    /\ ~IsNan(Val(sa_result).leave_one_out[3].difference_from_overall)
    /\ Val(sa_result).leave_one_out[3].difference_from_overall # FInt(0)

----------------------------------------------------------------------------
(* Properties of perform_eggers_test                                       *)

EggerReturned == eg_pc = "returned"

EggerAllNull(result) ==
    /\ result.intercept = None
    /\ result.intercept_se = None
    /\ result.intercept_pvalue = None

EggerNoneNull(result) ==
    /\ result.intercept # None
    /\ result.intercept_se # None
    /\ result.intercept_pvalue # None

(* C22: with fewer than 3 effect sizes perform_eggers_test returns         *)
(* intercept, intercept_se and intercept_pvalue null and the               *)
(* interpretation "Egger's test requires at least 3 studies"; it does not  *)
(* raise and no arithmetic step is reached.                                *)
C22_EggerTooFew ==
    (eg_pc \notin {"idle", "line353"} /\ Len(eg_effect_sizes) < 3) =>
        /\ EggerReturned
        /\ eg_error = None
        /\ EggerAllNull(Val(eg_result))
        /\ Val(eg_result).interpretation
              = "Egger's test requires at least 3 studies"

\* two effect sizes with three standard errors, one of them zero
C22_Witness ==
    /\ EggerReturned
    /\ Len(eg_effect_sizes) = 2
    /\ Len(eg_std_errors) = 3
    /\ \E i \in 1..3 : eg_std_errors[i] = 0
    /\ EggerAllNull(Val(eg_result))

\* a tail probability is a number from 0 to 1
TailInUnitInterval(p) == p.dist \in {"t", "norm", "chi2", "one"} /\ ~TailIsNan(p)

\* the standard errors of the call are all the same
IdenticalStdErrors ==
    \A i, j \in 1..Len(eg_std_errors) : eg_std_errors[i] = eg_std_errors[j]

(* C23: for 3 or more effect sizes perform_eggers_test raises nothing,     *)
(* whatever the standard errors are and however many there are; it returns *)
(* either the three numbers null with the interpretation of a failed test  *)
(* (always so for identical standard errors and for a standard error of    *)
(* zero), or the three numbers, intercept_pvalue from 0 to 1, and the      *)
(* interpretation "Evidence of publication bias (p < 0.05)" exactly when   *)
(* intercept_pvalue < 0.05.                                                *)
C23_EggerNeverRaises ==
    Len(eg_effect_sizes) >= 3 =>
        /\ eg_pc # "raised"
        /\ EggerReturned =>
              LET r == Val(eg_result)
              IN  /\ \/ EggerAllNull(r) /\ r.interpretation = MsgEggerFailed
                     \/ /\ EggerNoneNull(r)
                        /\ TailInUnitInterval(Val(r.intercept_pvalue))
                        /\ r.interpretation = "Evidence of publication bias (p < 0.05)"
                              <=> PValueBelow(Val(r.intercept_pvalue))
                  /\ (IdenticalStdErrors
                      \/ \E i \in 1..Len(eg_std_errors) : eg_std_errors[i] = 0)
                         => EggerAllNull(r)

----------------------------------------------------------------------------
(* Properties of interpret_heterogeneity                                   *)

(* C24: interpret_heterogeneity returns "Low heterogeneity" below 25,      *)
(* "Moderate heterogeneity" from 25 to below 50, "Substantial              *)
(* heterogeneity" from 50 to below 75 and "Considerable heterogeneity"     *)
(* from 75 on.                                                             *)
C24_HeterogeneityBands ==
    ih_pc = "returned" =>
        LET i_squared == Val(ih_i_squared)
            hundredths == (100 * i_squared.num) \div i_squared.den
        IN  Val(ih_result) =
                CASE hundredths < 2500 -> "Low heterogeneity"
                  [] 2500 <= hundredths /\ hundredths < 5000 -> "Moderate heterogeneity"
                  [] 5000 <= hundredths /\ hundredths < 7500 -> "Substantial heterogeneity"
                  [] 7500 <= hundredths -> "Considerable heterogeneity"

\* the argument 50 is in the third band
C24_Witness ==
    /\ ih_pc = "returned"
    /\ Val(ih_i_squared) = FInt(50)
    /\ Val(ih_result) = "Substantial heterogeneity"

----------------------------------------------------------------------------
(* Properties of import_pdf                                                *)

\* the ids of the papers with the title and the authors of the upload
SamePapers ==
    {i \in 1..Len(papers) :
        /\ papers[i].title = Val(imp_paper_data).title
        /\ papers[i].authors = Val(imp_paper_data).authors}

\* the step of lines 105-157
ImportSaves == imp_pc = "line105" /\ imp_pc' = "returned"

(* C25: an upload whose title and authors are those of a paper of the      *)
(* library adds no paper.  If that paper has a pdf_path or a full_text the *)
(* call returns it with is_duplicate and already_has_pdf true and changes  *)
(* no paper; if it is metadata-only the call sets pdf_path and full_text   *)
(* of that paper, keeps its id and its other fields, and returns           *)
(* is_duplicate true, already_has_pdf false.  A paper is added, exactly    *)
(* one and with is_duplicate false, only when no such paper exists.        *)
C25_ImportDuplicate ==
    [][ImportSaves =>
        LET result == Val(imp_result')
            paper_data == Val(imp_paper_data)
        IN  /\ SamePapers # {} =>
                  /\ Len(papers') = Len(papers)
                  /\ \E i \in SamePapers :
                        /\ result.paper.id = i
                        /\ result.is_duplicate
                        /\ \A j \in (1..Len(papers)) \ {i} : papers'[j] = papers[j]
                        /\ IF HasFullPdf(papers[i])
                           THEN /\ result.already_has_pdf
                                /\ result.paper = papers[i]
                                /\ papers' = papers
                           ELSE /\ ~result.already_has_pdf
                                /\ result.paper = papers'[i]
                                /\ papers'[i] =
                                      [papers[i] EXCEPT
                                          !.pdf_path = paper_data.pdf_path,
                                          !.full_text = paper_data.full_text]
            /\ Len(papers') \in {Len(papers), Len(papers) + 1}
            /\ Len(papers') = Len(papers) + 1 =>
                  /\ SamePapers = {}
                  /\ ~result.is_duplicate
                  /\ SubSeq(papers', 1, Len(papers)) = papers
    ]_vars

----------------------------------------------------------------------------
(* Properties of the analysis endpoints                                    *)

RouteResponded == rt_pc = "responded"

\* paper_ids of the body, none when the body has none
RequestedIds ==
    IF rt_data # None /\ "paper_ids" \in DOMAIN Val(rt_data)
    THEN Val(rt_data).paper_ids
    ELSE <<>>

\* the paper of the id exists and has effect-size data: for the outcome
\* asked for, or for any outcome when none is asked for
HasEffectSizeData(paper_id) ==
    /\ paper_id \in 1..Len(rt_db)
    /\ "study_metadata" \in DOMAIN rt_db[paper_id]
    /\ rt_db[paper_id].study_metadata.effect_sizes # None
    /\ LET outcomes == Val(rt_db[paper_id].study_metadata.effect_sizes)
       IN  IF "outcome_name" \in DOMAIN Val(rt_data)
           THEN Val(rt_data).outcome_name \in DOMAIN outcomes
           ELSE DOMAIN outcomes # {}

\* the studies that remain of the requested papers
RemainingStudies ==
    Cardinality({i \in 1..Len(RequestedIds) : HasEffectSizeData(RequestedIds[i])})

\* the response is an error payload of the status and nothing was analyzed
RejectedWith(status) ==
    /\ Val(rt_response).status = status
    /\ Val(rt_response).payload = "error"
    /\ ~rt_invoked

(* C26: the meta-analysis endpoint answers 400 for fewer than 2 paper_ids  *)
(* and for fewer than 2 studies that remain of the papers that exist and   *)
(* have effect-size data; the bias-assessment and sensitivity-analysis     *)
(* endpoints do so with 3; the WWC endpoint answers 400 without paper_id   *)
(* and 404 for a paper that does not exist.  In these cases the response   *)
(* is an error payload and the analyzer or assessor has not been called.   *)
C26_ValidateBeforeComputing ==
    RouteResponded =>
        IF rt_endpoint = Some("wwc-assessment")
        THEN /\ (rt_data = None \/ "paper_id" \notin DOMAIN Val(rt_data))
                   => RejectedWith(400)
             /\ (rt_data # None /\ "paper_id" \in DOMAIN Val(rt_data)
                 /\ Val(rt_data).paper_id \notin 1..Len(rt_db)
                 /\ Val(rt_data).paper_id # 0)
                   => RejectedWith(404)
        ELSE LET least == IF rt_endpoint = Some("meta-analysis") THEN 2 ELSE 3
             IN  /\ Len(RequestedIds) < least => RejectedWith(400)
                 /\ (rt_data # None /\ RemainingStudies < least)
                       => RejectedWith(400)

----------------------------------------------------------------------------
(* Properties of steps 2 and 3 of assess                                   *)

\* step 2 has run and the entries it read are still in the state
AttritionCalculated == pc = "step3"

(* C27: overall_attrition is (baseline_n - endline_n) / baseline_n         *)
(* whenever both sample sizes are present and baseline_n > 0, for every    *)
(* endline_n, zero included; otherwise it is the mean of the treatment and *)
(* the control attrition rate when both are present; otherwise null.       *)
C27_OverallAttrition ==
    AttritionCalculated =>
        LET e == extracted_data
        IN  assessment.overall_attrition =
                IF e.baseline_n # None /\ e.endline_n # None
                   /\ Val(e.baseline_n) > 0
                THEN Some(Rat(Val(e.baseline_n) - Val(e.endline_n),
                              Val(e.baseline_n)))
                ELSE IF e.treatment_attrition # None /\ e.control_attrition # None
                THEN Some(Rat(e.treatment_attrition[1].num * e.control_attrition[1].den
                                + e.control_attrition[1].num * e.treatment_attrition[1].den,
                              2 * (e.treatment_attrition[1].den
                                   * e.control_attrition[1].den)))
                ELSE None

\* step 3 has run
AttritionDetermined == pc = "step4"

\* the warning of line 243 is in the justification
WarnedIncomplete ==
    \E i \in 1..Len(assessment.rating_justification) :
        assessment.rating_justification[i]
            = "Warning: Attrition data incomplete. Assessment may be inaccurate."

(* C28: differential_attrition is |treatment - control| when both rates    *)
(* are present and null otherwise; when overall_attrition or               *)
(* differential_attrition is null, is_high_attrition is null and the       *)
(* warning that the attrition data are incomplete is appended; otherwise   *)
(* is_high_attrition is the negation of is_low_attrition for the two rates *)
(* and the chosen boundary, and there is no warning.                       *)
C28_DifferentialAndHighAttrition ==
    /\ AttritionCalculated =>
          LET t == extracted_data.treatment_attrition
              c == extracted_data.control_attrition
          IN  IF t # None /\ c # None
              THEN /\ assessment.differential_attrition # None
                   /\ LET d == Val(assessment.differential_attrition)
                      IN  /\ d.num >= 0 /\ d.den > 0
                          /\ \/ d.num * (Val(t).den * Val(c).den)
                                  = d.den * (Val(t).num * Val(c).den
                                             - Val(c).num * Val(t).den)
                             \/ d.num * (Val(t).den * Val(c).den)
                                  = d.den * (Val(c).num * Val(t).den
                                             - Val(t).num * Val(c).den)
              ELSE assessment.differential_attrition = None
    /\ AttritionDetermined =>
          IF assessment.overall_attrition = None
             \/ assessment.differential_attrition = None
          THEN /\ assessment.is_high_attrition = None
               /\ WarnedIncomplete
               /\ assessment.rating_justification[Len(assessment.rating_justification)]
                     = MsgAttritionIncomplete
          ELSE /\ assessment.is_high_attrition
                     = Some(~is_low_attrition(assessment.overall_attrition,
                                              assessment.differential_attrition,
                                              assessment.chosen_attrition_boundary))
               /\ ~WarnedIncomplete

\* treatment 1%, control 2%: the difference is 1% whatever the order
C28_Witness ==
    /\ AttritionDetermined
    /\ assessment.differential_attrition # None
    /\ Val(assessment.differential_attrition).num > 0
    /\ assessment.overall_attrition # None
    /\ assessment.is_high_attrition = Some(FALSE)

----------------------------------------------------------------------------
(* Properties of the two attrition boundaries                              *)

\* does_not_meet < meets_with_reservations < meets_without_reservations
RatingRank(rating) ==
    CASE rating = "Does Not Meet WWC Standards" -> 0
      [] rating = "Meets WWC Standards With Reservations" -> 1
      [] rating = "Meets WWC Standards Without Reservations" -> 2

(* C30: the optimistic boundary is never stricter than the cautious one:   *)
(* rates that is_low_attrition accepts under cautious it accepts under     *)
(* optimistic, and of two assess calls that differ only in                 *)
(* chosen_attrition_boundary the optimistic one never has the worse final  *)
(* rating (does_not_meet < meets_with_reservations <                       *)
(* meets_without_reservations).                                            *)
C30_OptimisticNeverStricter ==
    /\ (la_args # None /\ Val(la_args).boundary = "cautious"
        /\ la_result = Some(TRUE))
          => is_low_attrition(Val(la_args).overall, Val(la_args).differential,
                              "optimistic")
    /\ cmp_phase = "second_recorded" =>
          /\ cmp_first # None
          /\ cmp_second # None
          /\ RatingRank(Val(cmp_first)) <= RatingRank(Val(cmp_second))

\* a pair of calls where the optimistic boundary gives the better rating
C30_Witness ==
    /\ cmp_phase = "second_recorded"
    /\ cmp_first = Some("Does Not Meet WWC Standards")
    /\ cmp_second = Some("Meets WWC Standards Without Reservations")

====
